---------------------------- MODULE Spec2Model ----------------------------
(***************************************************************************)
(* A state machine for pylox: the driver (lox/lox.py), the tree-walking    *)
(* interpreter (lox/interpreter.py) and the environment chain              *)
(* (lox/environment.py).                                                   *)
(*                                                                         *)
(* The interpreter's Python recursion is made explicit as a control stack: *)
(* one frame per active visit_* / execute_block / call, with `ph` the      *)
(* position inside the handler.  A raised exception is the variable        *)
(* `signal`; while it is set, frames are popped one by one (execute_block  *)
(* runs its finally clause, LoxFunction.call its except clause).           *)
(***************************************************************************)
EXTENDS Integers, Sequences, FiniteSets, TLC

(***************************************************************************)
(* Bounds                                                                  *)
(***************************************************************************)
\* Number of lines entered at the interactive prompt before the input ends.
MaxLines == 2

(***************************************************************************)
(* Runtime values.  Every value is a record of the same shape: `t` is the  *)
(* Python type, `n` a number or a heap index, `s` a string.                *)
(***************************************************************************)
Nil == [t |-> "nil", n |-> 0, s |-> ""]
Bool(b) == [t |-> "bool", n |-> IF b THEN 1 ELSE 0, s |-> ""]
Num(i) == [t |-> "num", n |-> i, s |-> ""]
Str(x) == [t |-> "str", n |-> 0, s |-> x]
FnRef(i) == [t |-> "fn", n |-> i, s |-> ""]
ClassRef(i) == [t |-> "class", n |-> i, s |-> ""]
InstanceRef(i) == [t |-> "instance", n |-> i, s |-> ""]
ClockCallable == [t |-> "native", n |-> 0, s |-> "clock"]

\* Values float(time()) may return.
ClockTimes == {Num(1), Num(2)}

(***************************************************************************)
(* Tokens (spec: {kind, lexeme, literal, line}).  `literal` is the value   *)
(* of a NUMBER or STRING token, None (nil) for every other token.          *)
(***************************************************************************)
Token(type, lexeme, literal, line) ==
  [type |-> type, lexeme |-> lexeme, literal |-> literal, line |-> line]

(***************************************************************************)
(* AST nodes (lox/expr.py, lox/stmt.py).  A token is modelled by its       *)
(* lexeme.  Variable, Assign and This carry `id`, the node's identity,     *)
(* which keys Interpreter.locals.                                          *)
(***************************************************************************)
None == [k |-> "None"]
LiteralExpr(v) == [k |-> "Literal", value |-> v]
VariableExpr(i, name) == [k |-> "Variable", id |-> i, name |-> name]
AssignExpr(i, name, value) == [k |-> "Assign", id |-> i, name |-> name, value |-> value]
ThisExpr(i) == [k |-> "This", id |-> i, keyword |-> "this"]
BinaryExpr(left, op, right) == [k |-> "Binary", left |-> left, operator |-> op, right |-> right]
LogicalExpr(left, op, right) == [k |-> "Logical", left |-> left, operator |-> op, right |-> right]
Call(callee, paren, arguments) ==
  [k |-> "Call", callee |-> callee, paren |-> paren, arguments |-> arguments]
\* The closing paren of a call on the given line, and a call written on line 1.
Paren(line) == Token("RIGHT_PAREN", ")", Nil, line)
CallExpr(callee, arguments) == Call(callee, Paren(1), arguments)
GetExpr(object, name) == [k |-> "Get", object |-> object, name |-> name]
SetExpr(object, name, value) == [k |-> "Set", object |-> object, name |-> name, value |-> value]
GroupingExpr(e) == [k |-> "Grouping", expression |-> e]
UnaryExpr(op, right) == [k |-> "Unary", operator |-> op, right |-> right]

ExpressionStmt(e) == [k |-> "Expression", expression |-> e]
PrintStmt(e) == [k |-> "Print", expression |-> e]
VarStmt(name, init) == [k |-> "Var", name |-> name, initializer |-> init]
BlockStmt(stmts) == [k |-> "Block", statements |-> stmts]
IfStmt(c, th, el) == [k |-> "If", condition |-> c, then_branch |-> th, else_branch |-> el]
WhileStmt(c, body) == [k |-> "While", condition |-> c, body |-> body]
FunctionStmt(name, params, body) == [k |-> "Function", name |-> name, params |-> params, body |-> body]
ReturnStmt(value) == [k |-> "Return", value |-> value]
ClassStmt(name, methods) == [k |-> "Class", name |-> name, methods |-> methods]

\* What the scanner and the parser make of a piece of source that is not a
\* well-formed declaration: a character the scanner rejects (an error is
\* reported, no token is produced) and a declaration in which the parser
\* raises ParseError (an error is reported, the declaration becomes None).
ScanErrorItem == [k |-> "ScanError"]
ParseErrorItem == [k |-> "ParseError"]

(***************************************************************************)
(* Scanner (lox/scanner.py).  The source is a sequence of characters, each *)
(* a string of length one; the scanner object is the record                *)
(*   [source, tokens, start, current, line, errors, returned]              *)
(* with start and current counted from 0 as in the code, errors the        *)
(* messages handed to Lox.error, and returned set once scan_tokens has     *)
(* returned.  A lexeme is a string.                                        *)
(***************************************************************************)
MaxSource == 3

\* The characters sources are made of: letters (o, r: the keyword `or`), a
\* digit, the dot, the slash, `=`, the double quote, the line feed, and a
\* character no rule accepts.
Alphabet == {"o", "r", "1", ".", "/", "=", "\"", "\n", "@"}

Sources == UNION {[1..n -> Alphabet] : n \in 0..MaxSource}

NewScanner(source) ==
  [source |-> source, tokens |-> << >>, start |-> 0, current |-> 0, line |-> 1,
   errors |-> << >>, returned |-> FALSE]

\* source[a:b]
RECURSIVE Slice(_, _, _)
Slice(source, a, b) ==
  IF a >= b THEN "" ELSE source[a + 1] \o Slice(source, a + 1, b)

Scanner_isAtEnd(sc) == sc.current >= Len(sc.source)

\* The scanner after advance(); the character returned is the one stepped over.
Scanner_advance(sc) == [sc EXCEPT !.current = @ + 1]

\* Whether match returns True; the scanner is then Scanner_advance(sc).
Scanner_match(sc, expected) ==
  IF Scanner_isAtEnd(sc) THEN FALSE ELSE sc.source[sc.current + 1] = expected

\* "NUL" stands for the character "\0".
Scanner_peek(sc) == IF Scanner_isAtEnd(sc) THEN "NUL" ELSE sc.source[sc.current + 1]

peek_next(sc) ==
  IF sc.current + 1 >= Len(sc.source) THEN "NUL" ELSE sc.source[sc.current + 2]

is_digit(c) == c \in {"0", "1", "2", "3", "4", "5", "6", "7", "8", "9"}

is_alpha(c) ==
  c \in {"a", "b", "c", "d", "e", "f", "g", "h", "i", "j", "k", "l", "m", "n", "o", "p", "q",
         "r", "s", "t", "u", "v", "w", "x", "y", "z", "A", "B", "C", "D", "E", "F", "G", "H",
         "I", "J", "K", "L", "M", "N", "O", "P", "Q", "R", "S", "T", "U", "V", "W", "X", "Y",
         "Z", "_"}

is_alphanumeric(c) == is_alpha(c) \/ is_digit(c)

\* A variant of add_token that takes the text source[start : current - 1].
add_token_short(sc, type, literal) ==
  [sc EXCEPT !.tokens = Append(@, Token(type, Slice(sc.source, sc.start, sc.current - 1),
                                        literal, sc.line))]

add_token(sc, type, literal) ==
  [sc EXCEPT !.tokens = Append(@, Token(type, Slice(sc.source, sc.start, sc.current),
                                        literal, sc.line))]

\* Lox.error(line, message)
Scanner_error(sc, message) == [sc EXCEPT !.errors = Append(@, message)]

\* The four `while ...: self.advance()` loops: to the end of a comment's line,
\* to the closing quote of a string (counting lines), over digits, over
\* letters and digits.
RECURSIVE advance_while(_, _)
advance_while(sc, loop) ==
  LET c == Scanner_peek(sc)
      more == CASE loop = "comment" -> c # "\n" /\ ~Scanner_isAtEnd(sc)
                [] loop = "string" -> c # "\"" /\ ~Scanner_isAtEnd(sc)
                [] loop = "digits" -> is_digit(c)
                [] loop = "alphanumeric" -> is_alphanumeric(c)
  IN IF more
       THEN advance_while(Scanner_advance(IF loop = "string" /\ c = "\n"
                                            THEN [sc EXCEPT !.line = @ + 1] ELSE sc),
                          loop)
       ELSE sc

string(sc) ==
  LET s1 == advance_while(sc, "string")
      s2 == Scanner_advance(s1)
  IN IF Scanner_isAtEnd(s1) THEN Scanner_error(s1, "Unterminated string.")
     ELSE add_token(s2, "STRING", Str(Slice(s2.source, s2.start + 1, s2.current - 1)))

\* The value of a digit.
DigitValue(c) ==
  CASE c = "0" -> 0 [] c = "1" -> 1 [] c = "2" -> 2 [] c = "3" -> 3 [] c = "4" -> 4
    [] c = "5" -> 5 [] c = "6" -> 6 [] c = "7" -> 7 [] c = "8" -> 8 [] c = "9" -> 9

\* The number the digits source[a:b] denote.
RECURSIVE Decimal(_, _, _)
Decimal(source, a, b) ==
  IF a >= b THEN 0 ELSE 10 * Decimal(source, a, b - 1) + DigitValue(source[b])

\* A decimal fraction without its trailing zeros: m * 10^-k.
RECURSIVE Normal(_, _)
Normal(m, k) == IF k > 0 /\ m % 10 = 0 THEN Normal(m \div 10, k - 1) ELSE << m, k >>

\* float(source[a:b]) for digits with an optional fraction; `dot` is the index
\* of the dot, b when there is none.  A whole number is Num(i); m * 10^-k with
\* k > 0 is the number value with n = m and s = "e-k".
float(source, a, dot, b) ==
  LET digits == [i \in 1..(b - a - (IF dot < b THEN 1 ELSE 0)) |->
                   IF a + i <= dot THEN source[a + i] ELSE source[a + i + 1]]
      mk == Normal(Decimal(digits, 0, Len(digits)), IF dot < b THEN b - dot - 1 ELSE 0)
  IN IF mk[2] = 0 THEN Num(mk[1])
     ELSE [Num(mk[1]) EXCEPT !.s = "e-" \o ToString(mk[2])]

number(sc) ==
  LET s1 == advance_while(sc, "digits")
      fraction == Scanner_peek(s1) = "." /\ is_digit(peek_next(s1))
      s2 == IF fraction THEN advance_while(Scanner_advance(s1), "digits") ELSE s1
  IN add_token(s2, "NUMBER", float(s2.source, s2.start, s1.current, s2.current))

keywords ==
  ("and" :> "AND") @@ ("class" :> "CLASS") @@ ("else" :> "ELSE") @@ ("false" :> "FALSE")
  @@ ("for" :> "FOR") @@ ("fun" :> "FUN") @@ ("if" :> "IF") @@ ("nil" :> "NIL")
  @@ ("or" :> "OR") @@ ("print" :> "PRINT") @@ ("return" :> "RETURN")
  @@ ("super" :> "SUPER") @@ ("this" :> "THIS") @@ ("true" :> "TRUE") @@ ("var" :> "VAR")
  @@ ("while" :> "WHILE")

identifier(sc) ==
  LET s1 == advance_while(sc, "alphanumeric")
      text == Slice(s1.source, s1.start, s1.current)
  IN add_token(s1, IF text \in DOMAIN keywords THEN keywords[text] ELSE "IDENTIFIER", Nil)

\* The token types of the characters that are a token by themselves.
single_character ==
  ("(" :> "LEFT_PAREN") @@ (")" :> "RIGHT_PAREN") @@ ("{" :> "LEFT_BRACE")
  @@ ("}" :> "RIGHT_BRACE") @@ ("," :> "COMMA") @@ ("." :> "DOT") @@ ("-" :> "MINUS")
  @@ ("+" :> "PLUS") @@ (";" :> "SEMICOLON") @@ ("*" :> "STAR")

\* The token types of the characters that `=` may follow: alone, with `=`.
one_or_two ==
  ("!" :> << "BANG", "BANG_EQUAL" >>) @@ ("=" :> << "EQUAL", "EQUAL_EQUAL" >>)
  @@ ("<" :> << "LESS", "LESS_EQUAL" >>) @@ (">" :> << "GREATER", "GREATER_EQUAL" >>)

\* scan_token, called with start = current.
scan_token(sc) ==
  LET c == sc.source[sc.current + 1]
      s1 == Scanner_advance(sc)
  IN IF c \in DOMAIN single_character THEN add_token(s1, single_character[c], Nil)
     ELSE IF c \in DOMAIN one_or_two
       THEN IF Scanner_match(s1, "=") THEN add_token(Scanner_advance(s1), one_or_two[c][2], Nil)
            ELSE add_token(s1, one_or_two[c][1], Nil)
     ELSE IF c = "/"
       THEN IF Scanner_match(s1, "/") THEN advance_while(Scanner_advance(s1), "comment")
            ELSE add_token(s1, "SLASH", Nil)
     ELSE IF c \in {" ", "\r", "\t"} THEN s1
     ELSE IF c = "\n" THEN [s1 EXCEPT !.line = @ + 1]
     ELSE IF c = "\"" THEN string(s1)
     ELSE IF is_digit(c) THEN number(s1)
     ELSE IF is_alpha(c) THEN identifier(s1)
     ELSE Scanner_error(s1, "Unexpected character.")

\* scan_tokens, run to its return.
RECURSIVE scan_tokens(_)
scan_tokens(sc) ==
  IF ~Scanner_isAtEnd(sc) THEN scan_tokens(scan_token([sc EXCEPT !.start = sc.current]))
  ELSE [sc EXCEPT !.tokens = Append(@, Token("EOF", "", Nil, sc.line)), !.returned = TRUE]

(***************************************************************************)
(* Parser (lox/parser.py).  The parser object is the record                *)
(*   [current, errors, raised]                                             *)
(* current as in the source (the tokens are numbered from 0, so peek is    *)
(* toks[current + 1]), errors the messages handed to Lox.parse_error, and  *)
(* raised set while a ParseError propagates.  Every parsing method yields  *)
(* [p, node]: the parser afterwards and the node it returned.              *)
(***************************************************************************)
NewParser == [current |-> 0, errors |-> << >>, raised |-> FALSE]

Returns(p, node) == [p |-> p, node |-> node]
Raises(p) == [p |-> [p EXCEPT !.raised = TRUE], node |-> None]

isAtEnd(toks, p) == p.current >= Len(toks) - 1

peek(toks, p) == toks[p.current + 1]

\* tokens[current - 1]; Python's index -1 is the last token.
previous(toks, p) == toks[IF p.current = 0 THEN Len(toks) ELSE p.current]

\* advance as a parser that moves on without looking for the end.
advance_unchecked(toks, p) == [p EXCEPT !.current = @ + 1]

advance(toks, p) == IF ~isAtEnd(toks, p) THEN [p EXCEPT !.current = @ + 1] ELSE p

check(toks, p, token_type) ==
  IF isAtEnd(toks, p) THEN FALSE ELSE peek(toks, p).type = token_type

\* Whether match returns True; the parser is then advance(toks, p).
match(toks, p, token_types) == \E t \in token_types : check(toks, p, t)

\* Parser.error as a parser that makes the ParseError without reporting it.
error_unreported(toks, p, token, message) == p

\* Parser.error: the error is reported; the ParseError is returned, to be
\* raised by the caller or dropped.
error(toks, p, token, message) == [p EXCEPT !.errors = Append(@, message)]

consume(toks, p, type, message) ==
  IF check(toks, p, type) THEN Returns(advance(toks, p), peek(toks, p))
  ELSE Raises(error(toks, p, peek(toks, p), message))

\* Variant of synchronize_loop that stops at a `;` only.
RECURSIVE synchronize_loop_semicolon(_, _)
synchronize_loop_semicolon(toks, p) ==
  IF isAtEnd(toks, p) THEN p
  ELSE IF previous(toks, p).type = "SEMICOLON" THEN p
  ELSE synchronize_loop_semicolon(toks, advance(toks, p))

\* The while loop of synchronize.
RECURSIVE synchronize_loop(_, _)
synchronize_loop(toks, p) ==
  IF isAtEnd(toks, p) THEN p
  ELSE IF previous(toks, p).type = "SEMICOLON" THEN p
  ELSE IF peek(toks, p).type \in {"CLASS", "FUN", "VAR", "FOR", "IF", "WHILE", "PRINT", "RETURN"}
    THEN p
  ELSE synchronize_loop(toks, advance(toks, p))

synchronize(toks, p) == synchronize_loop(toks, advance(toks, p))

\* The parsing methods call each other through parse_rule, which dispatches on
\* the method's name; `a` carries the arguments a method takes besides the
\* parser itself.
RECURSIVE parse_rule(_, _, _, _)

\* `x = <call>; <rest>`: a ParseError raised by the call leaves the method at
\* once, otherwise the method goes on with the call's result.
Then(r, rest(_)) == IF r.p.raised THEN r ELSE rest(r)

\* The token types matched at each precedence level of the left-associative
\* binary operators: log_or, log_and, equality, comparison, term, factor.
operator_types(level) ==
  CASE level = 1 -> {"OR"}
    [] level = 2 -> {"AND"}
    [] level = 3 -> {"BANG_EQUAL", "EQUAL_EQUAL"}
    [] level = 4 -> {"GREATER", "GREATER_EQUAL", "LESS", "LESS_EQUAL"}
    [] level = 5 -> {"MINUS", "PLUS"}
    [] level = 6 -> {"SLASH", "STAR"}

\* The operand of a level: the next level, unary below factor.
operand(toks, p, level) ==
  IF level = 6 THEN parse_rule("unary", toks, p, None)
  ELSE parse_rule("binary_level", toks, p, level + 1)

\* `while self.match(...): operator = previous(); right = operand;
\*  expr = Logical/Binary(expr, operator, right)`
binary_loop(toks, p, expr, level) ==
  IF match(toks, p, operator_types(level))
    THEN Then(parse_rule("operand", toks, advance(toks, p), level),
              LAMBDA right :
                parse_rule("binary_loop", toks, right.p,
                           << IF level <= 2
                                THEN LogicalExpr(expr, peek(toks, p).type, right.node)
                                ELSE BinaryExpr(expr, peek(toks, p).type, right.node),
                              level >>))
    ELSE Returns(p, expr)

binary_level(toks, p, level) ==
  Then(parse_rule("operand", toks, p, level),
       LAMBDA expr : parse_rule("binary_loop", toks, expr.p, << expr.node, level >>))

log_or(toks, p) == parse_rule("binary_level", toks, p, 1)
log_and(toks, p) == parse_rule("binary_level", toks, p, 2)
equality(toks, p) == parse_rule("binary_level", toks, p, 3)
comparison(toks, p) == parse_rule("binary_level", toks, p, 4)
term(toks, p) == parse_rule("binary_level", toks, p, 5)
factor(toks, p) == parse_rule("binary_level", toks, p, 6)

expression(toks, p) == parse_rule("assignment", toks, p, None)

\* Variant of assignment that raises the "Invalid assignment target." error
\* instead of only reporting it.
assignment_raises(toks, p) ==
  Then(parse_rule("log_or", toks, p, None),
       LAMBDA expr :
         IF match(toks, expr.p, {"EQUAL"})
           THEN Then(parse_rule("assignment", toks, advance(toks, expr.p), None),
                     LAMBDA value :
                       IF expr.node.k = "Variable"
                         THEN Returns(value.p, AssignExpr(expr.node.id, expr.node.name, value.node))
                       ELSE IF expr.node.k = "Get"
                         THEN Returns(value.p, SetExpr(expr.node.object, expr.node.name, value.node))
                       ELSE Raises(error(toks, value.p, peek(toks, expr.p),
                                         "Invalid assignment target.")))
           ELSE expr)

\* `equals` is the token at expr.p; the error for an invalid target is
\* reported, not raised, and the left-hand expression returned.
assignment(toks, p) ==
  Then(parse_rule("log_or", toks, p, None),
       LAMBDA expr :
         IF match(toks, expr.p, {"EQUAL"})
           THEN Then(parse_rule("assignment", toks, advance(toks, expr.p), None),
                     LAMBDA value :
                       IF expr.node.k = "Variable"
                         THEN Returns(value.p, AssignExpr(expr.node.id, expr.node.name, value.node))
                       ELSE IF expr.node.k = "Get"
                         THEN Returns(value.p, SetExpr(expr.node.object, expr.node.name, value.node))
                       ELSE Returns(error(toks, value.p, peek(toks, expr.p),
                                          "Invalid assignment target."),
                                    expr.node))
           ELSE expr)

unary(toks, p) ==
  IF match(toks, p, {"BANG", "MINUS"})
    THEN Then(parse_rule("unary", toks, advance(toks, p), None),
              LAMBDA right : Returns(right.p, UnaryExpr(peek(toks, p).type, right.node)))
    ELSE parse_rule("call", toks, p, None)

\* The do-while loop of finish_call: one argument, then a comma or the end.
arguments_loop(toks, p, arguments) ==
  Then(parse_rule("expression", toks,
                  IF Len(arguments) >= 255
                    THEN error(toks, p, peek(toks, p), "Can't have more than 255 arguments.")
                    ELSE p,
                  None),
       LAMBDA arg :
         IF match(toks, arg.p, {"COMMA"})
           THEN parse_rule("arguments_loop", toks, advance(toks, arg.p),
                           Append(arguments, arg.node))
           ELSE Returns(arg.p, Append(arguments, arg.node)))

finish_call(toks, p, callee) ==
  Then(IF ~check(toks, p, "RIGHT_PAREN")
         THEN parse_rule("arguments_loop", toks, p, << >>)
         ELSE Returns(p, << >>),
       LAMBDA arguments :
         Then(consume(toks, arguments.p, "RIGHT_PAREN", "Expect ')' after arguments."),
              LAMBDA paren : Returns(paren.p, Call(callee, paren.node, arguments.node))))

\* The `while True` loop of call.
call_loop(toks, p, expr) ==
  IF match(toks, p, {"LEFT_PAREN"})
    THEN Then(parse_rule("finish_call", toks, advance(toks, p), expr),
              LAMBDA r : parse_rule("call_loop", toks, r.p, r.node))
  ELSE IF match(toks, p, {"DOT"})
    THEN Then(consume(toks, advance(toks, p), "IDENTIFIER", "Expect property name after '.'."),
              LAMBDA name : parse_rule("call_loop", toks, name.p,
                                       GetExpr(expr, name.node.lexeme)))
  ELSE Returns(p, expr)

call(toks, p) ==
  Then(parse_rule("primary", toks, p, None),
       LAMBDA expr : parse_rule("call_loop", toks, expr.p, expr.node))

\* A Variable or This node is identified by the position of its token.
primary(toks, p) ==
  IF match(toks, p, {"FALSE"}) THEN Returns(advance(toks, p), LiteralExpr(Bool(FALSE)))
  ELSE IF match(toks, p, {"TRUE"}) THEN Returns(advance(toks, p), LiteralExpr(Bool(TRUE)))
  ELSE IF match(toks, p, {"NIL"}) THEN Returns(advance(toks, p), LiteralExpr(Nil))
  ELSE IF match(toks, p, {"NUMBER", "STRING"})
    THEN Returns(advance(toks, p), LiteralExpr(peek(toks, p).literal))
  ELSE IF match(toks, p, {"THIS"}) THEN Returns(advance(toks, p), ThisExpr(p.current + 1))
  ELSE IF match(toks, p, {"IDENTIFIER"})
    THEN Returns(advance(toks, p), VariableExpr(p.current + 1, peek(toks, p).lexeme))
  ELSE IF match(toks, p, {"LEFT_PAREN"})
    THEN Then(parse_rule("expression", toks, advance(toks, p), None),
              LAMBDA expr :
                Then(consume(toks, expr.p, "RIGHT_PAREN", "Expect ')' after expression."),
                     LAMBDA paren : Returns(paren.p, GroupingExpr(expr.node))))
  ELSE Raises(error(toks, p, peek(toks, p), "Expect expression."))

expression_statement(toks, p) ==
  Then(parse_rule("expression", toks, p, None),
       LAMBDA expr :
         Then(consume(toks, expr.p, "SEMICOLON", "Expect ';' after expression."),
              LAMBDA semi : Returns(semi.p, ExpressionStmt(expr.node))))

print_statement(toks, p) ==
  Then(parse_rule("expression", toks, p, None),
       LAMBDA value :
         Then(consume(toks, value.p, "SEMICOLON", "Expect ; after value"),
              LAMBDA semi : Returns(semi.p, PrintStmt(value.node))))

return_statement(toks, p) ==
  Then(IF ~check(toks, p, "SEMICOLON") THEN parse_rule("expression", toks, p, None)
       ELSE Returns(p, None),
       LAMBDA value :
         Then(consume(toks, value.p, "SEMICOLON", "Expect ';' after return value."),
              LAMBDA semi : Returns(semi.p, ReturnStmt(value.node))))

var_declaration(toks, p) ==
  Then(consume(toks, p, "IDENTIFIER", "Expect variable name."),
       LAMBDA name :
         Then(IF match(toks, name.p, {"EQUAL"})
                THEN parse_rule("expression", toks, advance(toks, name.p), None)
                ELSE Returns(name.p, None),
              LAMBDA initializer :
                Then(consume(toks, initializer.p, "SEMICOLON",
                             "Expect ';' after variable declaration."),
                     LAMBDA semi : Returns(semi.p, VarStmt(name.node.lexeme, initializer.node)))))

\* The loop of block: declarations up to the closing brace or the end.
block_loop(toks, p, statements) ==
  IF ~check(toks, p, "RIGHT_BRACE") /\ ~isAtEnd(toks, p)
    THEN Then(parse_rule("declaration", toks, p, None),
              LAMBDA d : parse_rule("block_loop", toks, d.p, Append(statements, d.node)))
    ELSE Returns(p, statements)

block(toks, p) ==
  Then(parse_rule("block_loop", toks, p, << >>),
       LAMBDA statements :
         Then(consume(toks, statements.p, "RIGHT_BRACE", "Expect '}' after block."),
              LAMBDA brace : Returns(brace.p, statements.node)))

if_statement(toks, p) ==
  Then(consume(toks, p, "LEFT_PAREN", "Expect '(' after 'if'."),
       LAMBDA paren :
  Then(parse_rule("expression", toks, paren.p, None),
       LAMBDA condition :
  Then(consume(toks, condition.p, "RIGHT_PAREN", "Expect ')' after condition."),
       LAMBDA close :
  Then(parse_rule("statement", toks, close.p, None),
       LAMBDA then_branch :
  Then(IF match(toks, then_branch.p, {"ELSE"})
         THEN parse_rule("statement", toks, advance(toks, then_branch.p), None)
         ELSE Returns(then_branch.p, None),
       LAMBDA else_branch :
         Returns(else_branch.p,
                 IfStmt(condition.node, then_branch.node, else_branch.node)))))))

while_statement(toks, p) ==
  Then(consume(toks, p, "LEFT_PAREN", "Expect '(' after 'while'."),
       LAMBDA paren :
  Then(parse_rule("expression", toks, paren.p, None),
       LAMBDA cond :
  Then(consume(toks, cond.p, "RIGHT_PAREN", "Expect ')' after condition."),
       LAMBDA close :
  Then(parse_rule("statement", toks, close.p, None),
       LAMBDA body : Returns(body.p, WhileStmt(cond.node, body.node))))))

\* The desugaring at the end of for_statement:
\* Block([initializer, While(cond, Block([body, inc]))]).
for_desugar(initializer, cond, inc, body) ==
  LET body1 == IF inc # None THEN BlockStmt(<< body, inc >>) ELSE body
      body2 == WhileStmt(cond, body1)
  IN IF initializer # None THEN BlockStmt(<< initializer, body2 >>) ELSE body2

\* for_statement: the three clauses, then the body.
for_statement(toks, p) ==
  Then(consume(toks, p, "LEFT_PAREN", "Expect '(' after 'while'."),
       LAMBDA paren :
  Then(IF match(toks, paren.p, {"SEMICOLON"}) THEN Returns(advance(toks, paren.p), None)
       ELSE IF match(toks, paren.p, {"VAR"})
         THEN parse_rule("var_declaration", toks, advance(toks, paren.p), None)
       ELSE parse_rule("expression_statement", toks, paren.p, None),
       LAMBDA initializer :
  Then(IF match(toks, initializer.p, {"SEMICOLON"})
         THEN Returns(advance(toks, initializer.p), LiteralExpr(Bool(TRUE)))
         ELSE Then(parse_rule("expression", toks, initializer.p, None),
                   LAMBDA c :
                     Then(consume(toks, c.p, "SEMICOLON", "Expect ';' after loop condition"),
                          LAMBDA semi : Returns(semi.p, c.node))),
       LAMBDA cond :
  Then(IF match(toks, cond.p, {"RIGHT_PAREN"})
         THEN Returns(advance(toks, cond.p), None)
         ELSE Then(parse_rule("expression", toks, cond.p, None),
                   LAMBDA i :
                     Then(consume(toks, i.p, "RIGHT_PAREN", "Expect ')' after for clauses."),
                          LAMBDA close : Returns(close.p, i.node))),
       LAMBDA inc :
  Then(parse_rule("statement", toks, inc.p, None),
       LAMBDA body :
         Returns(body.p, for_desugar(initializer.node, cond.node, inc.node, body.node)))))))

statement(toks, p) ==
  IF match(toks, p, {"IF"}) THEN parse_rule("if_statement", toks, advance(toks, p), None)
  ELSE IF match(toks, p, {"PRINT"}) THEN parse_rule("print_statement", toks, advance(toks, p), None)
  ELSE IF match(toks, p, {"RETURN"}) THEN parse_rule("return_statement", toks, advance(toks, p), None)
  ELSE IF match(toks, p, {"WHILE"}) THEN parse_rule("while_statement", toks, advance(toks, p), None)
  ELSE IF match(toks, p, {"FOR"}) THEN parse_rule("for_statement", toks, advance(toks, p), None)
  ELSE IF match(toks, p, {"LEFT_BRACE"})
    THEN Then(parse_rule("block", toks, advance(toks, p), None),
              LAMBDA b : Returns(b.p, BlockStmt(b.node)))
  ELSE parse_rule("expression_statement", toks, p, None)

\* The parameter list after the first parameter: `while self.match(COMMA)`.
RECURSIVE parameters_loop(_, _, _)
parameters_loop(toks, p, parameters) ==
  IF match(toks, p, {"COMMA"})
    THEN Then(consume(toks,
                      IF Len(parameters) >= 255
                        THEN error(toks, advance(toks, p), peek(toks, advance(toks, p)),
                                   "Can't have more than 255 parameters.")
                        ELSE advance(toks, p),
                      "IDENTIFIER", "Expect parameter name."),
              LAMBDA name : parameters_loop(toks, name.p, Append(parameters, name.node.lexeme)))
    ELSE Returns(p, parameters)

function_declaration(toks, p, kind) ==
  Then(consume(toks, p, "IDENTIFIER", "Expect " \o kind \o " name."),
       LAMBDA name :
  Then(consume(toks, name.p, "LEFT_PAREN", "Expect '(' after " \o kind \o " name."),
       LAMBDA paren :
  Then(IF ~check(toks, paren.p, "RIGHT_PAREN")
         THEN Then(consume(toks, paren.p, "IDENTIFIER", "Expect parameter name."),
                   LAMBDA first : parameters_loop(toks, first.p, << first.node.lexeme >>))
         ELSE Returns(paren.p, << >>),
       LAMBDA parameters :
  Then(consume(toks, parameters.p, "RIGHT_PAREN", "Expect ')' after parameters."),
       LAMBDA close :
  Then(consume(toks, close.p, "LEFT_BRACE", "Expect '{' before " \o kind \o " body."),
       LAMBDA brace :
  Then(parse_rule("block", toks, brace.p, None),
       LAMBDA body :
         Returns(body.p, FunctionStmt(name.node.lexeme, parameters.node, body.node))))))))

\* The loop of class_declaration: methods up to the closing brace or the end.
methods_loop(toks, p, methods) ==
  IF ~check(toks, p, "RIGHT_BRACE") /\ ~isAtEnd(toks, p)
    THEN Then(parse_rule("function_declaration", toks, p, "method"),
              LAMBDA m : parse_rule("methods_loop", toks, m.p, Append(methods, m.node)))
    ELSE Returns(p, methods)

class_declaration(toks, p) ==
  Then(consume(toks, p, "IDENTIFIER", "Expect class name."),
       LAMBDA name :
  Then(consume(toks, name.p, "LEFT_BRACE", "Expect '{' before class body."),
       LAMBDA brace :
  Then(parse_rule("methods_loop", toks, brace.p, << >>),
       LAMBDA methods :
  Then(consume(toks, methods.p, "RIGHT_BRACE", "Expect '}' after class body."),
       LAMBDA close : Returns(close.p, ClassStmt(name.node.lexeme, methods.node))))))

\* The try block of declaration.
declaration_try(toks, p) ==
  IF match(toks, p, {"CLASS"}) THEN parse_rule("class_declaration", toks, advance(toks, p), None)
  ELSE IF match(toks, p, {"FUN"})
    THEN parse_rule("function_declaration", toks, advance(toks, p), "function")
  ELSE IF match(toks, p, {"VAR"}) THEN parse_rule("var_declaration", toks, advance(toks, p), None)
  ELSE parse_rule("statement", toks, p, None)

\* `except ParseError: self.synchronize(); return None`
declaration_except(toks, d) ==
  IF d.p.raised
    THEN Returns(synchronize(toks, [d.p EXCEPT !.raised = FALSE]), None)
    ELSE d

declaration(toks, p) == declaration_except(toks, parse_rule("declaration_try", toks, p, None))

parse_rule(name, toks, p, a) ==
  CASE name = "expression" -> expression(toks, p)
    [] name = "assignment" -> assignment(toks, p)
    [] name = "operand" -> operand(toks, p, a)
    [] name = "binary_level" -> binary_level(toks, p, a)
    [] name = "binary_loop" -> binary_loop(toks, p, a[1], a[2])
    [] name = "log_or" -> log_or(toks, p)
    [] name = "log_and" -> log_and(toks, p)
    [] name = "equality" -> equality(toks, p)
    [] name = "comparison" -> comparison(toks, p)
    [] name = "term" -> term(toks, p)
    [] name = "factor" -> factor(toks, p)
    [] name = "unary" -> unary(toks, p)
    [] name = "call" -> call(toks, p)
    [] name = "call_loop" -> call_loop(toks, p, a)
    [] name = "finish_call" -> finish_call(toks, p, a)
    [] name = "arguments_loop" -> arguments_loop(toks, p, a)
    [] name = "primary" -> primary(toks, p)
    [] name = "expression_statement" -> expression_statement(toks, p)
    [] name = "print_statement" -> print_statement(toks, p)
    [] name = "return_statement" -> return_statement(toks, p)
    [] name = "var_declaration" -> var_declaration(toks, p)
    [] name = "block_loop" -> block_loop(toks, p, a)
    [] name = "block" -> block(toks, p)
    [] name = "if_statement" -> if_statement(toks, p)
    [] name = "while_statement" -> while_statement(toks, p)
    [] name = "for_statement" -> for_statement(toks, p)
    [] name = "statement" -> statement(toks, p)
    [] name = "function_declaration" -> function_declaration(toks, p, a)
    [] name = "methods_loop" -> methods_loop(toks, p, a)
    [] name = "class_declaration" -> class_declaration(toks, p)
    [] name = "declaration_try" -> declaration_try(toks, p)
    [] name = "declaration" -> declaration(toks, p)

\* Parser.parse: the loop `while not self.isAtEnd()`.
RECURSIVE parse_loop(_, _, _)
parse_loop(toks, p, statements) ==
  IF ~isAtEnd(toks, p)
    THEN Then(declaration(toks, p),
              LAMBDA d : parse_loop(toks, d.p, Append(statements, d.node)))
    ELSE Returns(p, statements)

Parser_parse(toks) == parse_loop(toks, NewParser, << >>)

(***************************************************************************)
(* The programs the driver is run on.  An input is a list of items: each   *)
(* item a declaration (given as the AST the parser builds for it) or one   *)
(* of the two malformed items above.                                       *)
(***************************************************************************)
\* var a = "global"; { fun show() { print a; } show(); var a = "block"; show(); }
ProgClosure ==
  << VarStmt("a", LiteralExpr(Str("global"))),
     BlockStmt(<< FunctionStmt("show", << >>, << PrintStmt(VariableExpr(1, "a")) >>),
                  ExpressionStmt(CallExpr(VariableExpr(2, "show"), << >>)),
                  VarStmt("a", LiteralExpr(Str("block"))),
                  ExpressionStmt(CallExpr(VariableExpr(3, "show"), << >>)) >>) >>

\* print "one"; print ; @ var late = 1;
ProgCompileError ==
  << PrintStmt(LiteralExpr(Str("one"))),
     ParseErrorItem,
     ScanErrorItem,
     VarStmt("late", LiteralExpr(Num(1))) >>

\* print "a"; var x = 1; x = 2; { print x; print 1 + "a"; } print "never";
ProgRuntimeError ==
  << PrintStmt(LiteralExpr(Str("a"))),
     VarStmt("x", LiteralExpr(Num(1))),
     ExpressionStmt(AssignExpr(1, "x", LiteralExpr(Num(2)))),
     BlockStmt(<< PrintStmt(VariableExpr(2, "x")),
                  PrintStmt(BinaryExpr(LiteralExpr(Num(1)), "PLUS", LiteralExpr(Str("a")))) >>),
     PrintStmt(LiteralExpr(Str("never"))) >>

\* print "x"; return; print "y";
ProgTopReturn ==
  << PrintStmt(LiteralExpr(Str("x"))),
     ReturnStmt(None),
     PrintStmt(LiteralExpr(Str("y"))) >>

\* fun f() { while (!false) { { if ((nil or true)) return "r"; else print "e"; } } print "unreachable"; }
\* fun g(p) { print f(); return 7; print "dead"; }
\* print g(0); print "after";
ProgReturn ==
  << FunctionStmt("f", << >>,
       << WhileStmt(UnaryExpr("BANG", LiteralExpr(Bool(FALSE))),
            BlockStmt(<< BlockStmt(<< IfStmt(GroupingExpr(LogicalExpr(LiteralExpr(Nil), "OR", LiteralExpr(Bool(TRUE)))),
                                             ReturnStmt(LiteralExpr(Str("r"))),
                                             PrintStmt(LiteralExpr(Str("e")))) >>) >>)),
          PrintStmt(LiteralExpr(Str("unreachable"))) >>),
     FunctionStmt("g", << "p" >>,
       << PrintStmt(CallExpr(VariableExpr(1, "f"), << >>)),
          ReturnStmt(LiteralExpr(Num(7))),
          PrintStmt(LiteralExpr(Str("dead"))) >>),
     PrintStmt(CallExpr(VariableExpr(2, "g"), << LiteralExpr(Num(0)) >>)),
     PrintStmt(LiteralExpr(Str("after"))) >>

\* class Cake { taste() { print "yum " + this.flavor; } }
\* var c = Cake(); c.flavor = "vanilla"; c.taste(); var t = c.taste; t();
ProgCake ==
  << ClassStmt("Cake",
       << FunctionStmt("taste", << >>,
            << PrintStmt(BinaryExpr(LiteralExpr(Str("yum ")), "PLUS",
                                    GetExpr(ThisExpr(1), "flavor"))) >>) >>),
     VarStmt("c", CallExpr(VariableExpr(2, "Cake"), << >>)),
     ExpressionStmt(SetExpr(VariableExpr(3, "c"), "flavor", LiteralExpr(Str("vanilla")))),
     ExpressionStmt(CallExpr(GetExpr(VariableExpr(4, "c"), "taste"), << >>)),
     VarStmt("t", GetExpr(VariableExpr(5, "c"), "taste")),
     ExpressionStmt(CallExpr(VariableExpr(6, "t"), << >>)) >>

\* class Foo { init() { return; } }  print Foo().init();
\* class Bar { init() { print "made"; } me() { return 5; } }
\* var b = Bar(); print b.init(); print b.me();
\* fun h() { } print h(); print clock; clock();
ProgInit ==
  << ClassStmt("Foo", << FunctionStmt("init", << >>, << ReturnStmt(None) >>) >>),
     PrintStmt(CallExpr(GetExpr(CallExpr(VariableExpr(1, "Foo"), << >>), "init"), << >>)),
     ClassStmt("Bar", << FunctionStmt("init", << >>, << PrintStmt(LiteralExpr(Str("made"))) >>),
                         FunctionStmt("me", << >>, << ReturnStmt(LiteralExpr(Num(5))) >>) >>),
     VarStmt("b", CallExpr(VariableExpr(2, "Bar"), << >>)),
     PrintStmt(CallExpr(GetExpr(VariableExpr(3, "b"), "init"), << >>)),
     PrintStmt(CallExpr(GetExpr(VariableExpr(4, "b"), "me"), << >>)),
     FunctionStmt("h", << >>, << >>),
     PrintStmt(CallExpr(VariableExpr(5, "h"), << >>)),
     PrintStmt(VariableExpr(6, "clock")),
     ExpressionStmt(CallExpr(VariableExpr(7, "clock"), << >>)) >>

\* for (var i=0; i<3; i=i+1) print i;
\* as the scanner hands it to the parser, and as the parser hands it on.
TokensFor ==
  << Token("FOR", "for", Nil, 1), Token("LEFT_PAREN", "(", Nil, 1), Token("VAR", "var", Nil, 1),
     Token("IDENTIFIER", "i", Nil, 1), Token("EQUAL", "=", Nil, 1),
     Token("NUMBER", "0", Num(0), 1), Token("SEMICOLON", ";", Nil, 1),
     Token("IDENTIFIER", "i", Nil, 1), Token("LESS", "<", Nil, 1),
     Token("NUMBER", "3", Num(3), 1), Token("SEMICOLON", ";", Nil, 1),
     Token("IDENTIFIER", "i", Nil, 1), Token("EQUAL", "=", Nil, 1),
     Token("IDENTIFIER", "i", Nil, 1), Token("PLUS", "+", Nil, 1),
     Token("NUMBER", "1", Num(1), 1), Token("RIGHT_PAREN", ")", Nil, 1),
     Token("PRINT", "print", Nil, 1), Token("IDENTIFIER", "i", Nil, 1),
     Token("SEMICOLON", ";", Nil, 1), Token("EOF", "", Nil, 2) >>

ProgFor == Parser_parse(TokensFor).node

\* fun one() { print "one"; return 1; } fun two() { print "two"; return 2; }
\* fun f(a, b) { print "body"; } fun callee() { print "callee"; return f; }
\* fun str() { print "str"; return "s"; } class K { init(a) { print "init"; } }
CallDecls ==
  << FunctionStmt("one", << >>, << PrintStmt(LiteralExpr(Str("one"))),
      ReturnStmt(LiteralExpr(Num(1))) >>),
     FunctionStmt("two", << >>, << PrintStmt(LiteralExpr(Str("two"))),
         ReturnStmt(LiteralExpr(Num(2))) >>),
     FunctionStmt("f", << "a", "b" >>, << PrintStmt(LiteralExpr(Str("body"))) >>),
     FunctionStmt("callee", << >>, << PrintStmt(LiteralExpr(Str("callee"))),
         ReturnStmt(VariableExpr(46, "f")) >>),
     FunctionStmt("str", << >>, << PrintStmt(LiteralExpr(Str("str"))),
         ReturnStmt(LiteralExpr(Str("s"))) >>),
     ClassStmt("K", << FunctionStmt("init", << "a" >>,
         << PrintStmt(LiteralExpr(Str("init"))) >>) >>) >>

\* ... callee()(one(), two()); K(one()); str()(one(), two()); print "never";
ProgCall ==
  CallDecls \o << ExpressionStmt(Call(Call(VariableExpr(74, "callee"), Paren(2), << >>),
      Paren(2), << Call(VariableExpr(78, "one"), Paren(2), << >>), Call(VariableExpr(82,
      "two"), Paren(2), << >>) >>)),
     ExpressionStmt(Call(VariableExpr(87, "K"), Paren(2), << Call(VariableExpr(89, "one"),
         Paren(2), << >>) >>)),
     ExpressionStmt(Call(Call(VariableExpr(94, "str"), Paren(2), << >>), Paren(2),
         << Call(VariableExpr(98, "one"), Paren(2), << >>), Call(VariableExpr(102, "two"),
         Paren(2), << >>) >>)),
     PrintStmt(LiteralExpr(Str("never"))) >>

\* ... callee()(one()
\* ); print "never";
ProgArity ==
  CallDecls \o << ExpressionStmt(Call(Call(VariableExpr(74, "callee"), Paren(2), << >>),
      Paren(3), << Call(VariableExpr(78, "one"), Paren(2), << >>) >>)),
     PrintStmt(LiteralExpr(Str("never"))) >>

\* ... K(one(), two()); print "never";
ProgArityClass ==
  CallDecls \o << ExpressionStmt(Call(VariableExpr(74, "K"), Paren(2), << Call(VariableExpr(76,
      "one"), Paren(2), << >>), Call(VariableExpr(80, "two"), Paren(2), << >>) >>)),
     PrintStmt(LiteralExpr(Str("never"))) >>

\* print "ok" or (1/0); print nil and (1/0); print nil or "b"; print 1 and 2; var a = 1;
\* false and (a = 2); true or (a = 3); print a; true and (a = 4); print a;
\* print nil or -"x"; print "never";
ProgLogical ==
  << PrintStmt(LogicalExpr(LiteralExpr(Str("ok")), "OR",
      GroupingExpr(BinaryExpr(LiteralExpr(Num(1)), "SLASH", LiteralExpr(Num(0)))))),
     PrintStmt(LogicalExpr(LiteralExpr(Nil), "AND",
         GroupingExpr(BinaryExpr(LiteralExpr(Num(1)), "SLASH", LiteralExpr(Num(0)))))),
     PrintStmt(LogicalExpr(LiteralExpr(Nil), "OR", LiteralExpr(Str("b")))),
     PrintStmt(LogicalExpr(LiteralExpr(Num(1)), "AND", LiteralExpr(Num(2)))),
     VarStmt("a", LiteralExpr(Num(1))),
     ExpressionStmt(LogicalExpr(LiteralExpr(Bool(FALSE)), "AND", GroupingExpr(AssignExpr(37,
         "a", LiteralExpr(Num(2)))))),
     ExpressionStmt(LogicalExpr(LiteralExpr(Bool(TRUE)), "OR", GroupingExpr(AssignExpr(45, "a",
         LiteralExpr(Num(3)))))),
     PrintStmt(VariableExpr(51, "a")),
     ExpressionStmt(LogicalExpr(LiteralExpr(Bool(TRUE)), "AND", GroupingExpr(AssignExpr(56,
         "a", LiteralExpr(Num(4)))))),
     PrintStmt(VariableExpr(62, "a")),
     PrintStmt(LogicalExpr(LiteralExpr(Nil), "OR", UnaryExpr("MINUS", LiteralExpr(Str("x"))))),
     PrintStmt(LiteralExpr(Str("never"))) >>

\* class A { m() { return "method"; } } var x = A(); var y = A(); print x.m();
\* x.m = "field"; print x.m; print y.m(); x.f = 1; x.f = 2; print x.f; print y.f;
\* print "never";
ProgFields ==
  << ClassStmt("A", << FunctionStmt("m", << >>,
      << ReturnStmt(LiteralExpr(Str("method"))) >>) >>),
     VarStmt("x", Call(VariableExpr(16, "A"), Paren(1), << >>)),
     VarStmt("y", Call(VariableExpr(23, "A"), Paren(1), << >>)),
     PrintStmt(Call(GetExpr(VariableExpr(28, "x"), "m"), Paren(1), << >>)),
     ExpressionStmt(SetExpr(VariableExpr(34, "x"), "m", LiteralExpr(Str("field")))),
     PrintStmt(GetExpr(VariableExpr(41, "x"), "m")),
     PrintStmt(Call(GetExpr(VariableExpr(46, "y"), "m"), Paren(1), << >>)),
     ExpressionStmt(SetExpr(VariableExpr(52, "x"), "f", LiteralExpr(Num(1)))),
     ExpressionStmt(SetExpr(VariableExpr(58, "x"), "f", LiteralExpr(Num(2)))),
     PrintStmt(GetExpr(VariableExpr(65, "x"), "f")),
     PrintStmt(GetExpr(VariableExpr(70, "y"), "f")),
     PrintStmt(LiteralExpr(Str("never"))) >>

\* print x; x = 3;
ProgLater ==
  << PrintStmt(VariableExpr(1, "x")),
     ExpressionStmt(AssignExpr(2, "x", LiteralExpr(Num(3)))) >>

Programs == << ProgClosure, ProgCompileError, ProgRuntimeError, ProgTopReturn,
              ProgReturn, ProgCake, ProgInit, ProgFor, ProgCall, ProgArity,
              ProgArityClass, ProgLogical, ProgFields, ProgLater >>

\* What input("> ") can deliver besides a line of source: the empty line,
\* and the end of the input (input raises EOFError).
EmptyLine == << >>
EndOfInput == << [k |-> "EOF"] >>


(***************************************************************************)
(* State                                                                   *)
(***************************************************************************)
VARIABLES
  mode,               \* main: "file" (one argument) or "prompt" (none)
  pc,                 \* the driver's position: start, interpret, afterrun, prompt, done
  exit_code,          \* the process's exit status once pc = "done"
  lines,              \* lines run at the prompt so far
  program,            \* the source last handed to Lox.run, or what input() gave
  statements,         \* Parser.parse's result for it
  ip,                 \* interpret's loop: index of the next top-level statement
  had_error,          \* Lox.had_error
  had_runtime_error,  \* Lox.had_runtime_error
  errlog,             \* what went to stderr
  out,                \* what print wrote to stdout
  environment,        \* Interpreter.environment (an index into envs)
  envs,               \* every Environment object: [enclosing, values]
  heap,               \* every LoxFunction, LoxClass and LoxInstance object
  locals,             \* Interpreter.locals: node id -> depth
  stack,              \* the interpreter's active handlers, innermost first
  val,                \* the value the last finished evaluate() returned
  signal,             \* the exception being raised, if any
  snap,               \* history: out, errlog, envs and heap when the current run began
  scanner,            \* a Scanner object, and whether its scan_tokens has returned
  parser,             \* a Parser object, its tokens and what it has parsed
  env_call,           \* history: the last call of an Environment method
  resolver            \* a Resolver object and the constructs it is inside of

driver == << mode, pc, exit_code, lines, program, statements, ip, had_error,
             had_runtime_error, errlog, locals, snap, scanner, parser, env_call, resolver >>
machine == << out, environment, envs, heap, stack, val, signal >>
vars == << mode, pc, exit_code, lines, program, statements, ip, had_error,
           had_runtime_error, errlog, locals, snap, scanner, parser, env_call, resolver,
           out, environment, envs, heap, stack, val, signal >>

(***************************************************************************)
(* Exceptions.  The result of an operation that can raise has the same     *)
(* shape: t = "none" when it returned `value`.                             *)
(*   error  : LoxRuntimeError(token, message); `line` is the token's line   *)
(*            where the model keeps the token (a call's closing paren)      *)
(*   return : interpreter.Return(value)                                    *)
(*   crash  : any other Python exception (KeyError, AttributeError,        *)
(*            ZeroDivisionError), which nothing in the program catches     *)
(***************************************************************************)
Ok(v) == [t |-> "none", value |-> v, message |-> "", line |-> 0]
NoSignal == Ok(Nil)
LoxRuntimeError(message) == [t |-> "error", value |-> Nil, message |-> message, line |-> 0]
Return(v) == [t |-> "return", value |-> v, message |-> "", line |-> 0]
PyException(message) == [t |-> "crash", value |-> Nil, message |-> message, line |-> 0]

\* A LoxRuntimeError whose token's line is kept: the line runtime_error prints.
LoxRuntimeErrorAt(token, message) == [LoxRuntimeError(message) EXCEPT !.line = token.line]

(***************************************************************************)
(* Environment (lox/environment.py), as operations on the table of all     *)
(* Environment objects.  Index 0 stands for enclosing = None.              *)
(***************************************************************************)
NewEnvironment(enclosing) == [enclosing |-> enclosing, values |-> << >>]

define(es, e, name, v) == [es EXCEPT ![e].values = (name :> v) @@ @]

RECURSIVE get(_, _, _)
get(es, e, name) ==
  IF name \in DOMAIN es[e].values THEN Ok(es[e].values[name])
  ELSE IF es[e].enclosing # 0 THEN get(es, es[e].enclosing, name)
  ELSE LoxRuntimeError("Undefined variable '" \o name \o "'.")

\* The environment `distance` links up, 0 when the walk reaches None, and -1
\* when it would read None.enclosing.
RECURSIVE ancestor(_, _, _)
ancestor(es, e, distance) ==
  IF distance = 0 THEN e
  ELSE IF e = 0 THEN -1
  ELSE ancestor(es, es[e].enclosing, distance - 1)

get_at(es, e, distance, name) ==
  LET a == ancestor(es, e, distance) IN
  IF a <= 0 THEN PyException("AttributeError")
  ELSE IF name \notin DOMAIN es[a].values THEN PyException("KeyError")
  ELSE Ok(es[a].values[name])

\* assign and assign_at return the exception, if any, and the new table.
assign_at(es, e, distance, name, v) ==
  LET a == ancestor(es, e, distance) IN
  IF a <= 0 THEN [sig |-> PyException("AttributeError"), envs |-> es]
  ELSE [sig |-> NoSignal, envs |-> define(es, a, name, v)]

\* assign as a language that declares on assignment would do it: the slot is
\* written in the frame the call started from.
assign_here(es, e, name, v) ==
  IF get(es, e, name).t = "none"
    THEN [sig |-> NoSignal, envs |-> define(es, e, name, v)]
  ELSE [sig |-> LoxRuntimeError("Undefined variable '" \o name \o "'."), envs |-> es]

RECURSIVE assign(_, _, _, _)
assign(es, e, name, v) ==
  IF name \in DOMAIN es[e].values
    THEN [sig |-> NoSignal, envs |-> [es EXCEPT ![e].values[name] = v]]
  ELSE IF es[e].enclosing # 0 THEN assign(es, es[e].enclosing, name, v)
  ELSE [sig |-> LoxRuntimeError("Undefined variable '" \o name \o "'."), envs |-> es]

\* Interpreter.global_environment: the one Environment() built when the
\* default argument of Interpreter.__init__ is evaluated.
global_environment == 1

(***************************************************************************)
(* Runtime objects (lox/interpreter.py).  A reference value's `n` is the   *)
(* object's index in heap.                                                 *)
(***************************************************************************)
LoxFunction(decl, closure, is_initializer) ==
  [t |-> "fn", declaration |-> decl, closure |-> closure,
   is_initializer |-> is_initializer]
LoxClass(name, methods) == [t |-> "class", name |-> name, methods |-> methods]
LoxInstance(klass) == [t |-> "instance", klass |-> klass, fields |-> << >>]

\* LoxFunction.bind: a fresh frame {this: instance} enclosing the closure,
\* and a new function object over it.  Yields the new tables and the new
\* function's index.
bind(h, es, fn, instance) ==
  LET env == Len(es) + 1 IN
  [envs |-> define(Append(es, NewEnvironment(h[fn].closure)), env, "this", InstanceRef(instance)),
   heap |-> Append(h, LoxFunction(h[fn].declaration, env, h[fn].is_initializer)),
   fn |-> Len(h) + 1]

\* LoxClass.find_method: the method's index, 0 for None.
find_method(h, klass, name) ==
  IF name \in DOMAIN h[klass].methods THEN h[klass].methods[name] ELSE 0

LoxFunction_arity(h, fn) == Len(h[fn].declaration.params)

LoxClass_arity(h, klass) ==
  LET initializer == find_method(h, klass, "init") IN
  IF initializer = 0 THEN 0 ELSE LoxFunction_arity(h, initializer)

arity(h, callee) ==
  CASE callee.t = "native" -> 0
    [] callee.t = "fn" -> LoxFunction_arity(h, callee.n)
    [] callee.t = "class" -> LoxClass_arity(h, callee.n)

\* A variant of LoxInstance.get that looks for a method before a field.
LoxInstance_get_method_first(h, es, instance, name) ==
  LET method == find_method(h, h[instance].klass, name) IN
  IF method # 0
    THEN LET b == bind(h, es, method, instance) IN
         [sig |-> Ok(FnRef(b.fn)), heap |-> b.heap, envs |-> b.envs]
  ELSE IF name \in DOMAIN h[instance].fields
    THEN [sig |-> Ok(h[instance].fields[name]), heap |-> h, envs |-> es]
  ELSE [sig |-> LoxRuntimeError("Undefined property '" \o name \o "'."),
        heap |-> h, envs |-> es]

\* LoxInstance.get: a field, else the class's method bound to the instance,
\* else a runtime error.  Yields the exception or value and the new tables.
LoxInstance_get(h, es, instance, name) ==
  LET method == find_method(h, h[instance].klass, name) IN
  IF name \in DOMAIN h[instance].fields
    THEN [sig |-> Ok(h[instance].fields[name]), heap |-> h, envs |-> es]
  ELSE IF method # 0
    THEN LET b == bind(h, es, method, instance) IN
         [sig |-> Ok(FnRef(b.fn)), heap |-> b.heap, envs |-> b.envs]
  ELSE [sig |-> LoxRuntimeError("Undefined property '" \o name \o "'."),
        heap |-> h, envs |-> es]

LoxInstance_set(h, instance, name, v) ==
  [h EXCEPT ![instance].fields = (name :> v) @@ @]

is_callable(v) == v.t \in {"native", "fn", "class"}

is_truthy(v) ==
  IF v.t = "nil" THEN FALSE
  ELSE IF v.t = "bool" THEN v.n = 1
  ELSE TRUE

is_equal(a, b) ==
  IF a.t = "nil" /\ b.t = "nil" THEN TRUE
  ELSE IF a.t = "nil" THEN FALSE
  ELSE IF a.t # b.t THEN FALSE
  ELSE a = b

\* Numbers are Python floats; the model's are the integer-valued ones, for
\* which str() ends in ".0" and stringify cuts it off.
stringify(h, v) ==
  CASE v.t = "nil" -> "nil"
    [] v.t = "num" -> ToString(v.n)
    [] v.t = "bool" -> IF v.n = 1 THEN "true" ELSE "false"
    [] v.t = "str" -> v.s
    [] v.t = "native" -> "<native fn>"
    [] v.t = "fn" -> "<fn " \o h[v.n].declaration.name \o ">"
    [] v.t = "class" -> h[v.n].name
    [] v.t = "instance" -> h[h[v.n].klass].name \o " instance"

check_number_operands(left, right) == left.t = "num" /\ right.t = "num"

\* visit_binary_expr once both operands are evaluated.
binary(op, left, right) ==
  CASE op = "PLUS" ->
         IF left.t = "num" /\ right.t = "num" THEN Ok(Num(left.n + right.n))
         ELSE IF left.t = "str" /\ right.t = "str" THEN Ok(Str(left.s \o right.s))
         ELSE LoxRuntimeError("Operands must be two numbers or two strings.")
    [] op \in {"BANG_EQUAL", "EQUAL_EQUAL"} ->
         Ok(Bool(is_equal(left, right) = (op = "EQUAL_EQUAL")))
    [] op \in {"MINUS", "SLASH", "STAR", "GREATER", "GREATER_EQUAL", "LESS", "LESS_EQUAL"} ->
         IF ~check_number_operands(left, right)
           THEN LoxRuntimeError("Operands must be numbers.")
         ELSE CASE op = "MINUS" -> Ok(Num(left.n - right.n))
                [] op = "STAR" -> Ok(Num(left.n * right.n))
                \* float division: Python raises on a zero divisor
                [] op = "SLASH" -> IF right.n = 0 THEN PyException("ZeroDivisionError")
                                   ELSE Ok(Num(left.n \div right.n))
                [] op = "GREATER" -> Ok(Bool(left.n > right.n))
                [] op = "GREATER_EQUAL" -> Ok(Bool(left.n >= right.n))
                [] op = "LESS" -> Ok(Bool(left.n < right.n))
                [] op = "LESS_EQUAL" -> Ok(Bool(left.n <= right.n))
    [] OTHER -> Ok(Nil)

(***************************************************************************)
(* The control stack.  Every frame has the same shape:                     *)
(*   exec      : execute(node), at position ph of its visit_*_stmt         *)
(*   eval      : evaluate(node), at position ph of its visit_*_expr;       *)
(*               vals holds the operands evaluated so far                  *)
(*   block     : execute_block(node.statements, env); ph is the index of   *)
(*               the next statement, previous the saved environment        *)
(*   call      : LoxFunction.call of function obj, inside its try          *)
(*   construct : LoxClass.call waiting for the initializer; obj is the     *)
(*               new instance                                              *)
(***************************************************************************)
Frame(k, node) ==
  [k |-> k, node |-> node, ph |-> 0, vals |-> << >>, env |-> 0, previous |-> 0, obj |-> 0]
Exec(stmt) == Frame("exec", stmt)
Eval(expr) == Frame("eval", expr)

\* execute(stmt) is stmt.accept(self): for the increment expression that
\* for_statement puts in a Block, accept calls the visit_*_expr method.
IsExpr(node) ==
  node.k \in {"Literal", "Variable", "Assign", "This", "Binary", "Logical", "Call", "Get",
              "Set", "Grouping", "Unary"}
Execute(node) == IF IsExpr(node) THEN Eval(node) ELSE Exec(node)
BlockFrame(stmts, env, prev) ==
  [Frame("block", BlockStmt(stmts)) EXCEPT !.ph = 1, !.env = env, !.previous = prev]
CallFrame(fn) == [Frame("call", None) EXCEPT !.obj = fn]
ConstructFrame(instance) == [Frame("construct", None) EXCEPT !.obj = instance]

top == Head(stack)
rest == Tail(stack)
At(ph) == [top EXCEPT !.ph = ph]

\* The interpreter is running a handler and no exception is in flight.
Running == pc = "interpret" /\ signal.t = "none" /\ stack # << >>
AtStmt(kind) == Running /\ top.k = "exec" /\ top.node.k = kind
AtExpr(kind) == Running /\ top.k = "eval" /\ top.node.k = kind

\* The ways a handler step ends.
Goto(s) ==
  /\ stack' = s
  /\ UNCHANGED << out, environment, envs, heap, val, signal >>
  /\ UNCHANGED driver
Yield(v) ==
  /\ stack' = rest
  /\ val' = v
  /\ UNCHANGED << out, environment, envs, heap, signal >>
  /\ UNCHANGED driver
Raise(sig) ==
  /\ stack' = rest
  /\ signal' = sig
  /\ UNCHANGED << out, environment, envs, heap, val >>
  /\ UNCHANGED driver
Finish(r) == IF r.t = "none" THEN Yield(r.value) ELSE Raise(r)

(***************************************************************************)
(* Interpreter: expressions                                                *)
(***************************************************************************)
VisitLiteralExpr == AtExpr("Literal") /\ Yield(top.node.value)

\* Interpreter.lookup_variable
lookup_variable(name, expr) ==
  IF expr.id \in DOMAIN locals
    THEN get_at(envs, environment, locals[expr.id], name)
    ELSE get(envs, global_environment, name)

VisitVariableExpr == AtExpr("Variable") /\ Finish(lookup_variable(top.node.name, top.node))

VisitThisExpr == AtExpr("This") /\ Finish(lookup_variable(top.node.keyword, top.node))

VisitGroupingExpr == AtExpr("Grouping") /\ Goto(<< Eval(top.node.expression) >> \o rest)

VisitUnaryExpr ==
  /\ AtExpr("Unary")
  /\ IF top.ph = 0
       THEN Goto(<< Eval(top.node.right), At(1) >> \o rest)
       ELSE CASE top.node.operator = "MINUS" ->
                   IF val.t = "num" THEN Yield(Num(0 - val.n))
                   ELSE Raise(LoxRuntimeError("Operand must be a number."))
              [] top.node.operator = "BANG" -> Yield(Bool(~is_truthy(val)))
              [] OTHER -> Yield(Nil)

VisitAssignExpr ==
  /\ AtExpr("Assign")
  /\ IF top.ph = 0
       THEN Goto(<< Eval(top.node.value), At(1) >> \o rest)
       ELSE LET r == IF top.node.id \in DOMAIN locals
                       THEN assign_at(envs, environment, locals[top.node.id], top.node.name, val)
                       ELSE assign(envs, global_environment, top.node.name, val)
            IN /\ stack' = rest
               /\ envs' = r.envs
               /\ signal' = r.sig
               /\ UNCHANGED << out, environment, heap, val >>
               /\ UNCHANGED driver

VisitBinaryExpr ==
  /\ AtExpr("Binary")
  /\ CASE top.ph = 0 -> Goto(<< Eval(top.node.left), At(1) >> \o rest)
       [] top.ph = 1 -> Goto(<< Eval(top.node.right), [top EXCEPT !.ph = 2, !.vals = << val >>] >> \o rest)
       [] top.ph = 2 -> Finish(binary(top.node.operator, top.vals[1], val))

\* A variant of visit_logical_expr that yields the truthiness of the left
\* operand, a Boolean, where the code returns the operand's value.
VisitLogicalExprBoolean ==
  /\ AtExpr("Logical")
  /\ IF top.ph = 0
       THEN Goto(<< Eval(top.node.left), At(1) >> \o rest)
       ELSE CASE top.node.operator = "OR" ->
                   IF is_truthy(val) THEN Yield(Bool(TRUE))
                   ELSE Goto(<< Eval(top.node.right) >> \o rest)
              [] top.node.operator = "AND" ->
                   IF is_truthy(val) THEN Goto(<< Eval(top.node.right) >> \o rest)
                   ELSE Yield(Bool(FALSE))
              [] OTHER -> Yield(Nil)

VisitLogicalExpr ==
  /\ AtExpr("Logical")
  /\ IF top.ph = 0
       THEN Goto(<< Eval(top.node.left), At(1) >> \o rest)
       ELSE CASE top.node.operator = "OR" ->
                   IF is_truthy(val) THEN Yield(val)
                   ELSE Goto(<< Eval(top.node.right) >> \o rest)
              [] top.node.operator = "AND" ->
                   IF is_truthy(val) THEN Goto(<< Eval(top.node.right) >> \o rest)
                   ELSE Yield(val)
              [] OTHER -> Yield(Nil)

VisitGetExpr ==
  /\ AtExpr("Get")
  /\ IF top.ph = 0
       THEN Goto(<< Eval(top.node.object), At(1) >> \o rest)
       ELSE IF val.t = "instance"
         THEN LET r == LoxInstance_get(heap, envs, val.n, top.node.name) IN
              /\ stack' = rest
              /\ heap' = r.heap
              /\ envs' = r.envs
              /\ IF r.sig.t = "none"
                   THEN val' = r.sig.value /\ UNCHANGED signal
                   ELSE signal' = r.sig /\ UNCHANGED val
              /\ UNCHANGED << out, environment >>
              /\ UNCHANGED driver
         ELSE Raise(LoxRuntimeError("Only instances have properties."))

VisitSetExpr ==
  /\ AtExpr("Set")
  /\ CASE top.ph = 0 -> Goto(<< Eval(top.node.object), At(1) >> \o rest)
       [] top.ph = 1 ->
            IF val.t # "instance"
              THEN Raise(LoxRuntimeError("Only instances have fields."))
              ELSE Goto(<< Eval(top.node.value), [top EXCEPT !.ph = 2, !.vals = << val >>] >> \o rest)
       [] top.ph = 2 ->
            /\ stack' = rest
            /\ heap' = LoxInstance_set(heap, top.vals[1].n, top.node.name, val)
            /\ UNCHANGED << out, environment, envs, val, signal >>
            /\ UNCHANGED driver

\* LoxFunction.call up to the first statement of the body: the call's
\* environment with the parameters bound, and execute_block entered.  `below`
\* are the frames of the callers.
EnterFunction(h, es, fn, arguments, below) ==
  LET params == h[fn].declaration.params
      env == Len(es) + 1
      n == IF Len(params) < Len(arguments) THEN Len(params) ELSE Len(arguments)
      bound == [x \in {params[i] : i \in 1..n} |->
                  arguments[CHOOSE i \in 1..n : params[i] = x /\ \A j \in (i+1)..n : params[j] # x]]
  IN /\ envs' = Append(es, [enclosing |-> h[fn].closure, values |-> bound])
     /\ heap' = h
     /\ environment' = env
     /\ stack' = << BlockFrame(h[fn].declaration.body, env, environment), CallFrame(fn) >> \o below
     /\ UNCHANGED << out, val, signal >>
     /\ UNCHANGED driver

\* LoxClass.call: the new instance, and its initializer, if any, bound and
\* called.
EnterClass(klass, arguments) ==
  LET instance == Len(heap) + 1
      h1 == Append(heap, LoxInstance(klass))
      initializer == find_method(heap, klass, "init")
  IN IF initializer = 0
       THEN /\ stack' = rest
            /\ heap' = h1
            /\ val' = InstanceRef(instance)
            /\ UNCHANGED << out, environment, envs, signal >>
            /\ UNCHANGED driver
       ELSE LET b == bind(h1, envs, initializer, instance) IN
            EnterFunction(b.heap, b.envs, b.fn, arguments,
                          << ConstructFrame(instance) >> \o rest)

\* A variant of visit_call_expr without the comparison of the number of
\* arguments with the callee's arity.
VisitCallExprAnyArity ==
  /\ AtExpr("Call")
  /\ IF top.ph = 0
       THEN Goto(<< Eval(top.node.callee), At(1) >> \o rest)
       ELSE LET got == Append(top.vals, val)
                callee == got[1]
                arguments == Tail(got)
            IN IF Len(arguments) < Len(top.node.arguments)
                 THEN Goto(<< Eval(top.node.arguments[Len(got)]), [top EXCEPT !.vals = got] >> \o rest)
               ELSE IF ~is_callable(callee)
                 THEN Raise(LoxRuntimeErrorAt(top.node.paren, "Can only call functions and classes."))
               ELSE CASE callee.t = "native" -> \E now \in ClockTimes : Yield(now)
                      [] callee.t = "fn" -> EnterFunction(heap, envs, callee.n, arguments, rest)
                      [] callee.t = "class" -> EnterClass(callee.n, arguments)

VisitCallExpr ==
  /\ AtExpr("Call")
  /\ IF top.ph = 0
       THEN Goto(<< Eval(top.node.callee), At(1) >> \o rest)
       ELSE LET got == Append(top.vals, val)
                callee == got[1]
                arguments == Tail(got)
            IN IF Len(arguments) < Len(top.node.arguments)
                 THEN Goto(<< Eval(top.node.arguments[Len(got)]), [top EXCEPT !.vals = got] >> \o rest)
               ELSE IF ~is_callable(callee)
                 THEN Raise(LoxRuntimeErrorAt(top.node.paren, "Can only call functions and classes."))
               ELSE IF Len(arguments) # arity(heap, callee)
                 THEN Raise(LoxRuntimeErrorAt(top.node.paren,
                              "Expected " \o ToString(arity(heap, callee))
                              \o " arguments but got " \o ToString(Len(arguments)) \o "."))
               ELSE CASE callee.t = "native" -> \E now \in ClockTimes : Yield(now)
                      [] callee.t = "fn" -> EnterFunction(heap, envs, callee.n, arguments, rest)
                      [] callee.t = "class" -> EnterClass(callee.n, arguments)

\* closure.get_at(0, "this")
BoundThis(fn) == get_at(envs, heap[fn].closure, 0, "this")

\* A variant of call_result in which the except clause returns r.value without
\* looking at is_initializer.
call_result_plain(fn, sig) ==
  IF sig.t = "return" THEN Ok(sig.value)
  ELSE IF heap[fn].is_initializer THEN BoundThis(fn)
  ELSE Ok(Nil)

\* What LoxFunction.call returns when the body ended with `sig`: a Return, or
\* none (the body completed).
call_result(fn, sig) ==
  IF heap[fn].is_initializer THEN BoundThis(fn)
  ELSE IF sig.t = "return" THEN Ok(sig.value)
  ELSE Ok(Nil)

\* A variant of LoxFunctionCall without the except clause: a Return passes
\* through the call like any other exception.
LoxFunctionCallNoCatch ==
  /\ pc = "interpret"
  /\ stack # << >>
  /\ top.k = "call"
  /\ LET result == call_result(top.obj, signal)
     IN /\ stack' = rest
        /\ IF signal.t = "none"
             THEN IF result.t = "none"
                    THEN val' = result.value /\ signal' = NoSignal
                    ELSE signal' = result /\ UNCHANGED val
             ELSE UNCHANGED << val, signal >>
        /\ UNCHANGED << out, environment, envs, heap >>
        /\ UNCHANGED driver

\* LoxFunction.call once execute_block is over: the except clause when a
\* Return arrives, the code after the try when the body completed; any
\* other exception passes.
LoxFunctionCall ==
  /\ pc = "interpret"
  /\ stack # << >>
  /\ top.k = "call"
  /\ LET result == call_result(top.obj, signal)
     IN /\ stack' = rest
        /\ IF signal.t \in {"none", "return"}
             THEN IF result.t = "none"
                    THEN val' = result.value /\ signal' = NoSignal
                    ELSE signal' = result /\ UNCHANGED val
             ELSE UNCHANGED << val, signal >>
        /\ UNCHANGED << out, environment, envs, heap >>
        /\ UNCHANGED driver

\* LoxClass.call after the initializer: the instance, whatever init returned.
LoxClassCall ==
  /\ pc = "interpret"
  /\ stack # << >>
  /\ top.k = "construct"
  /\ stack' = rest
  /\ val' = IF signal.t = "none" THEN InstanceRef(top.obj) ELSE val
  /\ UNCHANGED << out, environment, envs, heap, signal >>
  /\ UNCHANGED driver

(***************************************************************************)
(* Interpreter: statements                                                 *)
(***************************************************************************)
VisitExpressionStmt ==
  /\ AtStmt("Expression")
  /\ IF top.ph = 0
       THEN Goto(<< Eval(top.node.expression), At(1) >> \o rest)
       ELSE Goto(rest)

VisitPrintStmt ==
  /\ AtStmt("Print")
  /\ IF top.ph = 0
       THEN Goto(<< Eval(top.node.expression), At(1) >> \o rest)
       ELSE /\ stack' = rest
            /\ out' = Append(out, stringify(heap, val))
            /\ UNCHANGED << environment, envs, heap, val, signal >>
            /\ UNCHANGED driver

VisitVarStmt ==
  /\ AtStmt("Var")
  /\ IF top.ph = 0 /\ top.node.initializer # None
       THEN Goto(<< Eval(top.node.initializer), At(1) >> \o rest)
       ELSE /\ stack' = rest
            /\ envs' = define(envs, environment, top.node.name,
                              IF top.ph = 0 THEN Nil ELSE val)
            /\ UNCHANGED << out, environment, heap, val, signal >>
            /\ UNCHANGED driver

VisitIfStmt ==
  /\ AtStmt("If")
  /\ IF top.ph = 0
       THEN Goto(<< Eval(top.node.condition), At(1) >> \o rest)
       ELSE IF is_truthy(val) THEN Goto(<< Exec(top.node.then_branch) >> \o rest)
       ELSE IF top.node.else_branch # None THEN Goto(<< Exec(top.node.else_branch) >> \o rest)
       ELSE Goto(rest)

VisitWhileStmt ==
  /\ AtStmt("While")
  /\ IF top.ph = 0
       THEN Goto(<< Eval(top.node.condition), At(1) >> \o rest)
       ELSE IF is_truthy(val) THEN Goto(<< Exec(top.node.body), At(0) >> \o rest)
       ELSE Goto(rest)

VisitFunctionStmt ==
  /\ AtStmt("Function")
  /\ stack' = rest
  /\ heap' = Append(heap, LoxFunction(top.node, environment, FALSE))
  /\ envs' = define(envs, environment, top.node.name, FnRef(Len(heap) + 1))
  /\ UNCHANGED << out, environment, val, signal >>
  /\ UNCHANGED driver

VisitReturnStmt ==
  /\ AtStmt("Return")
  /\ IF top.ph = 0 /\ top.node.value # None
       THEN Goto(<< Eval(top.node.value), At(1) >> \o rest)
       ELSE Raise(Return(IF top.ph = 0 THEN Nil ELSE val))

\* visit_class_stmt: the name is defined as nil, one LoxFunction per method
\* closes over the current environment, and the name is assigned the class.
VisitClassStmt ==
  /\ AtStmt("Class")
  /\ LET methods == top.node.methods
         n == Len(methods)
         fns == [i \in 1..n |->
                   LoxFunction(methods[i], environment, methods[i].name = "init")]
         table == [x \in {methods[i].name : i \in 1..n} |->
                     Len(heap) + (CHOOSE i \in 1..n :
                        methods[i].name = x /\ \A j \in (i+1)..n : methods[j].name # x)]
         klass == Len(heap) + n + 1
         r == assign(define(envs, environment, top.node.name, Nil),
                     environment, top.node.name, ClassRef(klass))
     IN /\ stack' = rest
        /\ heap' = Append(heap \o fns, LoxClass(top.node.name, table))
        /\ envs' = r.envs
        /\ signal' = r.sig
        /\ UNCHANGED << out, environment, val >>
        /\ UNCHANGED driver

VisitBlockStmt ==
  /\ AtStmt("Block")
  /\ stack' = << BlockFrame(top.node.statements, Len(envs) + 1, environment) >> \o rest
  /\ envs' = Append(envs, NewEnvironment(environment))
  /\ environment' = Len(envs) + 1
  /\ UNCHANGED << out, heap, val, signal >>
  /\ UNCHANGED driver

\* A variant of ExecuteBlock that restores the environment after the loop
\* instead of in a finally clause: an exception leaves it as it is.
ExecuteBlockNoFinally ==
  /\ pc = "interpret"
  /\ stack # << >>
  /\ top.k = "block"
  /\ IF signal.t = "none" /\ top.ph <= Len(top.node.statements)
       THEN Goto(<< Execute(top.node.statements[top.ph]), At(top.ph + 1) >> \o rest)
       ELSE /\ stack' = rest
            /\ environment' = IF signal.t = "none" THEN top.previous ELSE environment
            /\ UNCHANGED << out, envs, heap, val, signal >>
            /\ UNCHANGED driver

\* execute_block after `self.environment = env`: the loop over the
\* statements, and the finally clause on every way out.
ExecuteBlock ==
  /\ pc = "interpret"
  /\ stack # << >>
  /\ top.k = "block"
  /\ IF signal.t = "none" /\ top.ph <= Len(top.node.statements)
       THEN Goto(<< Execute(top.node.statements[top.ph]), At(top.ph + 1) >> \o rest)
       ELSE /\ stack' = rest
            /\ environment' = top.previous
            /\ UNCHANGED << out, envs, heap, val, signal >>
            /\ UNCHANGED driver

\* An exception leaves a visit_* handler: none of them catches anything.
Propagate ==
  /\ pc = "interpret"
  /\ signal.t # "none"
  /\ stack # << >>
  /\ top.k \in {"exec", "eval"}
  /\ Goto(rest)

(***************************************************************************)
(* Interpreter.interpret                                                   *)
(***************************************************************************)
\* The loop `for stmt in statements: self.execute(stmt)`; a None entry has
\* no accept method.
Interpret ==
  /\ pc = "interpret"
  /\ stack = << >>
  /\ signal.t = "none"
  /\ IF ip <= Len(statements)
       THEN /\ ip' = ip + 1
            /\ IF statements[ip] = None
                 THEN signal' = PyException("AttributeError") /\ UNCHANGED stack
                 ELSE stack' = << Exec(statements[ip]) >> /\ UNCHANGED signal
            /\ UNCHANGED pc
       ELSE /\ pc' = "afterrun"
            /\ UNCHANGED << ip, stack, signal >>
  /\ UNCHANGED << mode, exit_code, lines, program, statements, had_error,
                  had_runtime_error, errlog, locals, snap, scanner, parser, env_call, resolver >>
  /\ UNCHANGED << out, environment, envs, heap, val >>

\* A variant of InterpretCatch with the try inside the loop: the error is
\* reported and the loop goes on with the next statement.
InterpretCatchResume ==
  /\ pc = "interpret"
  /\ stack = << >>
  /\ signal.t = "error"
  /\ errlog' = Append(errlog, signal.message)
  /\ had_runtime_error' = TRUE
  /\ signal' = NoSignal
  /\ UNCHANGED << mode, pc, exit_code, lines, program, statements, ip, had_error, locals, snap, scanner, parser, env_call, resolver >>
  /\ UNCHANGED << out, environment, envs, heap, stack, val >>

\* except LoxRuntimeError as e: self.lox.runtime_error(e)
InterpretCatch ==
  /\ pc = "interpret"
  /\ stack = << >>
  /\ signal.t = "error"
  /\ errlog' = Append(errlog, signal.message)
  /\ had_runtime_error' = TRUE
  /\ signal' = NoSignal
  /\ pc' = "afterrun"
  /\ UNCHANGED << mode, exit_code, lines, program, statements, ip, had_error, locals, snap, scanner, parser, env_call, resolver >>
  /\ UNCHANGED << out, environment, envs, heap, stack, val >>

\* Any other exception leaves interpret, run, run_file or run_prompt, and
\* main: Python prints the traceback and the process ends with status 1.
Uncaught ==
  /\ pc = "interpret"
  /\ stack = << >>
  /\ signal.t \in {"return", "crash"}
  /\ pc' = "done"
  /\ exit_code' = 1
  /\ UNCHANGED << mode, lines, program, statements, ip, had_error,
                  had_runtime_error, errlog, locals, snap, scanner, parser, env_call, resolver >>
  /\ UNCHANGED machine

(***************************************************************************)
(* Resolver (lox/resolver.py).  The resolver object is the record          *)
(*   [scopes, current_function, current_class, locals, errors, raised]     *)
(* with scopes a sequence of functions from names to BOOLEAN (the last one *)
(* is scopes[-1]), locals the entries it has written to                    *)
(* Interpreter.locals through Interpreter.resolve, errors the messages     *)
(* handed to Lox.parse_error, and raised set when a Python exception left  *)
(* the resolver (None.accept raises AttributeError); the other fields are  *)
(* then as the exception left them.  A class statement has no superclass:  *)
(* the parser builds Class(name, methods).                                 *)
(***************************************************************************)
NewResolver(interpreter_locals) ==
  [scopes |-> << >>, current_function |-> "NONE", current_class |-> "NONE",
   locals |-> interpreter_locals, errors |-> << >>, raised |-> FALSE]

\* What follows a nested call: skipped when the call raised.
After(inner, result) == IF inner.raised THEN inner ELSE result

Resolver_error(r, message) == [r EXCEPT !.errors = Append(@, message)]

begin_scope(r) == [r EXCEPT !.scopes = Append(@, << >>)]

\* self.scopes.pop(); on an empty list pop raises IndexError.
end_scope(r) ==
  IF Len(r.scopes) = 0 THEN [r EXCEPT !.raised = TRUE]
  ELSE [r EXCEPT !.scopes = SubSeq(@, 1, Len(@) - 1)]

\* scopes[-1][name] = value
scope_put(r, name, value) ==
  [r EXCEPT !.scopes[Len(r.scopes)] = (name :> value) @@ @]

\* declare as a resolver that takes a name of any enclosing scope for a
\* redeclaration.
declare_any_scope(r, name) ==
  IF Len(r.scopes) = 0 THEN r
  ELSE scope_put(IF \E i \in 1..Len(r.scopes) : name \in DOMAIN r.scopes[i]
                   THEN Resolver_error(r, "Already a variable with this name in this scope.")
                 ELSE r,
                 name, FALSE)

Resolver_declare(r, name) ==
  IF Len(r.scopes) = 0 THEN r
  ELSE scope_put(IF name \in DOMAIN r.scopes[Len(r.scopes)]
                   THEN Resolver_error(r, "Already a variable with this name in this scope.")
                 ELSE r,
                 name, FALSE)

Resolver_define(r, name) ==
  IF Len(r.scopes) = 0 THEN r ELSE scope_put(r, name, TRUE)

\* The distances at which enumerate(self.scopes[::-1]) finds the name.
distances(r, name) ==
  {d \in 0..(Len(r.scopes) - 1) : name \in DOMAIN r.scopes[Len(r.scopes) - d]}

\* resolve_local as a resolver that numbers the scopes from the outermost one.
resolve_local_outermost(r, id, name) ==
  LET found == distances(r, name)
  IN IF found = {} THEN r
     ELSE [r EXCEPT !.locals = (id :> (Len(r.scopes) - 1 - CHOOSE d \in found : \A x \in found : d <= x)) @@ @]

\* Interpreter.resolve(expr, distance) for the first scope that has the name.
resolve_local(r, id, name) ==
  LET found == distances(r, name)
  IN IF found = {} THEN r
     ELSE [r EXCEPT !.locals = (id :> CHOOSE d \in found : \A x \in found : d <= x) @@ @]

\* The loop over function.params in resolve_function.
RECURSIVE declare_params(_, _)
declare_params(r, params) ==
  IF params = << >> THEN r
  ELSE declare_params(Resolver_define(Resolver_declare(r, Head(params)), Head(params)),
                      Tail(params))

\* resolve_rule("resolve", r, list) is resolve(list), ("accept", r, node) is
\* node.accept(self), ("resolve_function", r, << function, type >>) is
\* resolve_function(function, type), ("methods", r, list) is the loop over
\* stmt.methods in visit_class_stmt.
RECURSIVE resolve_rule(_, _, _)

\* resolve(obj) for a list.
resolve(r, objs) == resolve_rule("resolve", r, objs)

\* resolve(obj) for an expression or a statement.
accept(r, obj) == resolve_rule("accept", r, obj)

\* resolve_function up to the resolution of the body.
enter_function(r, params, type) ==
  declare_params(begin_scope([r EXCEPT !.current_function = type]), params)

\* resolve_function after the resolution of the body.
\* leave_function as a resolver that forgets to restore current_function.
leave_function_unrestored(r, enclosing_function) == end_scope(r)

leave_function(r, enclosing_function) ==
  [end_scope(r) EXCEPT !.current_function = enclosing_function]

resolve_function(r, function, type) ==
  LET body == resolve(enter_function(r, function.params, type), function.body)
  IN After(body, leave_function(body, r.current_function))

RECURSIVE resolve_methods(_, _)
resolve_methods(r, methods) ==
  IF r.raised \/ methods = << >> THEN r
  ELSE resolve_methods(
         resolve_rule("resolve_function", r,
                      << Head(methods),
                         IF Head(methods).name = "init" THEN "INITIALIZER" ELSE "METHOD" >>),
         Tail(methods))

Resolver_visit_block_stmt(r, stmt) ==
  LET body == resolve(begin_scope(r), stmt.statements)
  IN After(body, end_scope(body))

\* visit_class_stmt up to the loop over the methods.
enter_class(r, name) ==
  scope_put(begin_scope(Resolver_define(Resolver_declare([r EXCEPT !.current_class = "CLASS"],
                                                         name), name)),
            "this", TRUE)

\* visit_class_stmt after the loop over the methods.
leave_class(r, enclosing_class) == [end_scope(r) EXCEPT !.current_class = enclosing_class]

Resolver_visit_class_stmt(r, stmt) ==
  LET methods == resolve_methods(enter_class(r, stmt.name), stmt.methods)
  IN After(methods, leave_class(methods, r.current_class))

Resolver_visit_function_stmt(r, stmt) ==
  resolve_rule("resolve_function",
               Resolver_define(Resolver_declare(r, stmt.name), stmt.name),
               << stmt, "FUNCTION" >>)

Resolver_visit_if_stmt(r, stmt) ==
  LET branches == accept(accept(r, stmt.condition), stmt.then_branch)
  IN IF stmt.else_branch # None THEN accept(branches, stmt.else_branch) ELSE branches

Resolver_visit_return_stmt(r, stmt) ==
  LET checked == IF r.current_function = "NONE"
                   THEN Resolver_error(r, "Can't return from top-level code.")
                 ELSE r
  IN IF stmt.value = None THEN checked
     ELSE accept(IF r.current_function = "INITIALIZER"
                   THEN Resolver_error(checked, "Can't return a value from an initializer.")
                 ELSE checked,
                 stmt.value)

Resolver_visit_var_stmt(r, stmt) ==
  LET declared == Resolver_declare(r, stmt.name)
      initialized == IF stmt.initializer # None THEN accept(declared, stmt.initializer)
                     ELSE declared
  IN After(initialized, Resolver_define(initialized, stmt.name))

\* visit_variable_expr as a resolver that gives up on the expression it
\* has reported.
visit_variable_expr_unresolved(r, expr) ==
  IF /\ Len(r.scopes) # 0
     /\ expr.name \in DOMAIN r.scopes[Len(r.scopes)]
     /\ r.scopes[Len(r.scopes)][expr.name] = FALSE
    THEN Resolver_error(r, "Can't read local variable in its own initializer.")
  ELSE resolve_local(r, expr.id, expr.name)

Resolver_visit_variable_expr(r, expr) ==
  resolve_local(IF /\ Len(r.scopes) # 0
                   /\ expr.name \in DOMAIN r.scopes[Len(r.scopes)]
                   /\ r.scopes[Len(r.scopes)][expr.name] = FALSE
                  THEN Resolver_error(r, "Can't read local variable in its own initializer.")
                ELSE r,
                expr.id, expr.name)

Resolver_visit_this_expr(r, expr) ==
  IF r.current_class = "NONE"
    THEN Resolver_error(r, "Can't use 'this' outside of a class.")
  ELSE resolve_local(r, expr.id, expr.keyword)

Resolver_visit_assign_expr(r, expr) ==
  LET value == accept(r, expr.value)
  IN After(value, resolve_local(value, expr.id, expr.name))

resolve_rule(rule, r, a) ==
  IF r.raised THEN r
  ELSE
  CASE rule = "resolve" ->
         IF a = << >> THEN r
         ELSE resolve_rule("resolve", resolve_rule("accept", r, Head(a)), Tail(a))
    [] rule = "resolve_function" -> resolve_function(r, a[1], a[2])
    [] rule = "accept" ->
         CASE a.k = "Block" -> Resolver_visit_block_stmt(r, a)
           [] a.k = "Class" -> Resolver_visit_class_stmt(r, a)
           [] a.k = "Expression" -> resolve_rule("accept", r, a.expression)
           [] a.k = "Function" -> Resolver_visit_function_stmt(r, a)
           [] a.k = "If" -> Resolver_visit_if_stmt(r, a)
           [] a.k = "Print" -> resolve_rule("accept", r, a.expression)
           [] a.k = "Return" -> Resolver_visit_return_stmt(r, a)
           [] a.k = "Var" -> Resolver_visit_var_stmt(r, a)
           [] a.k = "While" ->
                resolve_rule("accept", resolve_rule("accept", r, a.condition), a.body)
           [] a.k = "Variable" -> Resolver_visit_variable_expr(r, a)
           [] a.k = "Assign" -> Resolver_visit_assign_expr(r, a)
           [] a.k \in {"Binary", "Logical"} ->
                resolve_rule("accept", resolve_rule("accept", r, a.left), a.right)
           [] a.k = "Call" ->
                resolve_rule("resolve", resolve_rule("accept", r, a.callee), a.arguments)
           [] a.k = "Get" -> resolve_rule("accept", r, a.object)
           [] a.k = "Grouping" -> resolve_rule("accept", r, a.expression)
           [] a.k = "Literal" -> r
           [] a.k = "Set" ->
                resolve_rule("accept", resolve_rule("accept", r, a.value), a.object)
           [] a.k = "This" -> Resolver_visit_this_expr(r, a)
           [] a.k = "Unary" -> resolve_rule("accept", r, a.right)
           [] a.k = "None" -> [r EXCEPT !.raised = TRUE]

(***************************************************************************)
(* The driver (lox/lox.py, lox/__main__.py)                                *)
(***************************************************************************)
IsStatement(item) == item.k # "ScanError"
IsError(item) == item.k \in {"ScanError", "ParseError"}

\* Interpreter(lox=self) as an interpreter that gets an Environment of its
\* own.
Interpreter_fresh(es) ==
  define([es EXCEPT ![global_environment] = NewEnvironment(0)],
         global_environment, "clock", ClockCallable)

\* Interpreter(lox=self): env is the default argument, the one Environment
\* made when the class was defined; __init__ defines clock in it.
NewInterpreter(es) == define(es, global_environment, "clock", ClockCallable)

\* Scanner.scan_tokens and Parser.parse on the source: the list of
\* statements, None where a declaration raised ParseError, and the errors
\* reported on the way.
parse(source) ==
  LET kept == SelectSeq(source, IsStatement)
      bad == SelectSeq(source, IsError)
  IN [statements |-> [i \in 1..Len(kept) |->
                        IF kept[i].k = "ParseError" THEN None ELSE kept[i]],
      errors |-> [i \in 1..Len(bad) |->
                    IF bad[i].k = "ScanError" THEN "Unexpected character."
                    ELSE "Expect expression."]]

\* Lox.report: had_error after the given messages were reported.
report(flag, messages) == flag \/ Len(messages) > 0

\* A variant of run_interprets without the check of had_error.
run_interprets_always(flag) == TRUE

\* Lox.run: `if self.had_error: return`, else interpret.
run_interprets(flag) == ~flag

\* Lox.run up to the call of interpret.
Run(source) ==
  LET parsed == parse(source)
      flag == report(had_error, parsed.errors)
      es == NewInterpreter(envs)
  IN /\ program' = source
     /\ statements' = parsed.statements
     /\ errlog' = errlog \o parsed.errors
     /\ had_error' = flag
     /\ envs' = es
     /\ environment' = global_environment
     /\ locals' = << >>
     /\ ip' = 1
     /\ stack' = << >>
     /\ signal' = NoSignal
     /\ val' = Nil
     /\ snap' = [out |-> out, errlog |-> errlog, envs |-> es, heap |-> heap]
     /\ pc' = IF run_interprets(flag) THEN "interpret" ELSE "afterrun"
     /\ UNCHANGED << mode, exit_code, had_runtime_error, out, heap, scanner, parser, env_call, resolver >>

\* run_file: read the file and run it.
RunFile ==
  /\ pc = "start"
  /\ mode = "file"
  /\ \E i \in 1..Len(Programs) : Run(Programs[i])
  /\ UNCHANGED lines

\* run_file after run returned.
RunFileExit ==
  /\ pc = "afterrun"
  /\ mode = "file"
  /\ pc' = "done"
  /\ exit_code' = IF had_error THEN 65 ELSE IF had_runtime_error THEN 70 ELSE 0
  /\ UNCHANGED << mode, lines, program, statements, ip, had_error,
                  had_runtime_error, errlog, locals, snap, scanner, parser, env_call, resolver >>
  /\ UNCHANGED machine

\* run_prompt: line = input("> "), then break or run.
RunPrompt ==
  /\ pc \in {"start", "prompt"}
  /\ mode = "prompt"
  /\ \/ /\ program' = EmptyLine
        /\ pc' = "done"
        /\ exit_code' = 0
        /\ UNCHANGED << mode, lines, statements, ip, had_error, had_runtime_error,
                        errlog, locals, snap, scanner, parser, env_call, resolver >>
        /\ UNCHANGED machine
     \/ /\ program' = EndOfInput
        /\ pc' = "done"
        /\ exit_code' = 1
        /\ UNCHANGED << mode, lines, statements, ip, had_error, had_runtime_error,
                        errlog, locals, snap, scanner, parser, env_call, resolver >>
        /\ UNCHANGED machine
     \/ /\ lines < MaxLines
        /\ lines' = lines + 1
        /\ \E i \in 1..Len(Programs) : Run(Programs[i])

\* run_prompt after run returned: self.had_error = False.
RunPromptReset ==
  /\ pc = "afterrun"
  /\ mode = "prompt"
  /\ had_error' = FALSE
  /\ pc' = "prompt"
  /\ UNCHANGED << mode, exit_code, lines, program, statements, ip,
                  had_runtime_error, errlog, locals, snap, scanner, parser, env_call, resolver >>
  /\ UNCHANGED machine

(***************************************************************************)
(* Specification                                                           *)
(***************************************************************************)
\* No Scanner, Parser or Resolver object is under observation, no
\* Environment method has been called.
NoScanner == [NewScanner(<< >>) EXCEPT !.returned = TRUE]
NoParser == [tokens |-> << >>, p |-> NewParser, statements |-> << >>, expr |-> None, at |-> "none"]
NoCall == [method |-> "none"]
NoResolver == [at |-> "none"]

\* The driver has not begun and no Interpreter exists yet.
Started ==
  /\ pc = "start"
  /\ exit_code = -1
  /\ lines = 0
  /\ program = << >>
  /\ statements = << >>
  /\ ip = 1
  /\ had_error = FALSE
  /\ had_runtime_error = FALSE
  /\ errlog = << >>
  /\ out = << >>
  /\ environment = global_environment
  /\ envs = << NewEnvironment(0) >>
  /\ heap = << >>
  /\ locals = << >>
  /\ stack = << >>
  /\ val = Nil
  /\ signal = NoSignal
  /\ snap = [out |-> << >>, errlog |-> << >>, envs |-> << NewEnvironment(0) >>, heap |-> << >>]

Init ==
  /\ mode \in {"file", "prompt"}
  /\ Started
  /\ scanner = NoScanner
  /\ parser = NoParser
  /\ env_call = NoCall
  /\ resolver = NoResolver

Next ==
  \/ RunFile
  \/ RunFileExit
  \/ RunPrompt
  \/ RunPromptReset
  \/ Interpret
  \/ InterpretCatch
  \/ Uncaught
  \/ VisitExpressionStmt
  \/ VisitPrintStmt
  \/ VisitVarStmt
  \/ VisitIfStmt
  \/ VisitWhileStmt
  \/ VisitFunctionStmt
  \/ VisitReturnStmt
  \/ VisitClassStmt
  \/ VisitBlockStmt
  \/ ExecuteBlock
  \/ VisitLiteralExpr
  \/ VisitVariableExpr
  \/ VisitThisExpr
  \/ VisitGroupingExpr
  \/ VisitUnaryExpr
  \/ VisitAssignExpr
  \/ VisitBinaryExpr
  \/ VisitLogicalExpr
  \/ VisitGetExpr
  \/ VisitSetExpr
  \/ VisitCallExpr
  \/ LoxFunctionCall
  \/ LoxClassCall
  \/ Propagate

Spec == Init /\ [][Next]_vars

\* The variables of the driver and the interpreter.
lox == << mode, pc, exit_code, lines, program, statements, ip, had_error,
         had_runtime_error, errlog, locals, snap, out, environment, envs, heap,
         stack, val, signal >>

(***************************************************************************)
(* Scanner.scan_tokens on every source of at most MaxSource characters.    *)
(***************************************************************************)
InitScan ==
  /\ mode = "file"
  /\ Started
  /\ scanner \in {NewScanner(source) : source \in Sources}
  /\ parser = NoParser
  /\ env_call = NoCall
  /\ resolver = NoResolver

\* One iteration of scan_tokens's loop: `self.start = self.current;
\* self.scan_token()`.
ScanToken ==
  /\ ~scanner.returned
  /\ ~Scanner_isAtEnd(scanner)
  /\ scanner' = scan_token([scanner EXCEPT !.start = scanner.current])
  /\ UNCHANGED << lox, parser, env_call, resolver >>

\* A variant of ScanEnd that returns the tokens without an EOF token when an
\* error was reported.
ScanEndSilentOnError ==
  /\ ~scanner.returned
  /\ Scanner_isAtEnd(scanner)
  /\ scanner' = IF scanner.errors = << >>
                  THEN [scanner EXCEPT !.tokens = Append(@, Token("EOF", "", Nil, scanner.line)),
                                       !.returned = TRUE]
                  ELSE [scanner EXCEPT !.returned = TRUE]
  /\ UNCHANGED << lox, parser, env_call, resolver >>

\* The end of scan_tokens: the EOF token is appended and the list returned.
ScanEnd ==
  /\ ~scanner.returned
  /\ Scanner_isAtEnd(scanner)
  /\ scanner' = [scanner EXCEPT !.tokens = Append(@, Token("EOF", "", Nil, scanner.line)),
                                !.returned = TRUE]
  /\ UNCHANGED << lox, parser, env_call, resolver >>

NextScan ==
  \/ ScanToken
  \/ ScanEnd

SpecScan == InitScan /\ [][NextScan]_vars

\* scan_tokens runs on: a step that can be taken is taken.
FairSpecScan == SpecScan /\ WF_vars(NextScan)

(***************************************************************************)
(* The parser on every token list of at most MaxTokens tokens before EOF.  *)
(* `parser` is [tokens, p, statements, expr, at]: the tokens, the Parser   *)
(* object, the statements parse has collected, the expression assignment   *)
(* returned, and where the parser is: in parse's loop ("parse"), after     *)
(* parse returned ("returned"), after a call of assignment on the fresh    *)
(* parser ("assignment"), after Lox.run handed the statements to the       *)
(* interpreter ("interpret") or returned without ("rejected").             *)
(***************************************************************************)
MaxTokens == 5

\* Tokens as the scanner makes them for `a`, `1`, `=`, `.`, `;` and `print`.
TokenKinds ==
  {Token("IDENTIFIER", "a", Nil, 1), Token("NUMBER", "1", Num(1), 1),
   Token("EQUAL", "=", Nil, 1), Token("DOT", ".", Nil, 1),
   Token("SEMICOLON", ";", Nil, 1), Token("PRINT", "print", Nil, 1)}

TokenLists ==
  {Append(ts, Token("EOF", "", Nil, 1)) : ts \in UNION {[1..n -> TokenKinds] : n \in 0..MaxTokens}}

\* The for statements `for (<init> <cond>; <inc>) print 1;` with each clause
\* present or omitted: init is `var a = 1;`, `1;` or `;`, cond is `1`, inc is
\* `1.a`.
ForCases == [init : {"var", "expression", "none"}, cond : BOOLEAN, inc : BOOLEAN]

ForTokens(c) ==
  << Token("FOR", "for", Nil, 1), Token("LEFT_PAREN", "(", Nil, 1) >>
  \o (CASE c.init = "var" ->
             << Token("VAR", "var", Nil, 1), Token("IDENTIFIER", "a", Nil, 1),
                Token("EQUAL", "=", Nil, 1), Token("NUMBER", "1", Num(1), 1) >>
        [] c.init = "expression" -> << Token("NUMBER", "1", Num(1), 1) >>
        [] c.init = "none" -> << >>)
  \o << Token("SEMICOLON", ";", Nil, 1) >>
  \o (IF c.cond THEN << Token("NUMBER", "1", Num(1), 1) >> ELSE << >>)
  \o << Token("SEMICOLON", ";", Nil, 1) >>
  \o (IF c.inc THEN << Token("NUMBER", "1", Num(1), 1), Token("DOT", ".", Nil, 1),
                       Token("IDENTIFIER", "a", Nil, 1) >>
      ELSE << >>)
  \o << Token("RIGHT_PAREN", ")", Nil, 1), Token("PRINT", "print", Nil, 1),
        Token("NUMBER", "1", Num(1), 1), Token("SEMICOLON", ";", Nil, 1),
        Token("EOF", "", Nil, 1) >>

\* The bodies `{ ... }` and `{ ...` of a block statement and of a function
\* `fun a() { ...`, over the same tokens.
BlockLists ==
  {head \o << Token("LEFT_BRACE", "{", Nil, 1) >> \o body \o close \o << Token("EOF", "", Nil, 1) >> :
     head \in {<< >>, << Token("FUN", "fun", Nil, 1), Token("IDENTIFIER", "a", Nil, 1),
                         Token("LEFT_PAREN", "(", Nil, 1), Token("RIGHT_PAREN", ")", Nil, 1) >>},
     body \in UNION {[1..n -> TokenKinds] : n \in 0..(MaxTokens - 2)},
     close \in {<< >>, << Token("RIGHT_BRACE", "}", Nil, 1) >>}}

InitParse ==
  /\ mode = "file"
  /\ Started
  /\ scanner = NoScanner
  /\ parser \in {[tokens |-> ts, p |-> NewParser, statements |-> << >>, expr |-> None,
                   at |-> "parse"] :
                    ts \in TokenLists \cup {ForTokens(c) : c \in ForCases} \cup BlockLists}
  /\ env_call = NoCall
  /\ resolver = NoResolver

\* One iteration of parse's loop: `statements.append(self.declaration())`.
ParseDeclaration ==
  /\ parser.at = "parse"
  /\ ~isAtEnd(parser.tokens, parser.p)
  /\ LET d == declaration(parser.tokens, parser.p)
     IN parser' = [parser EXCEPT !.p = d.p, !.statements = Append(@, d.node)]
  /\ UNCHANGED << lox, scanner, env_call, resolver >>

\* parse returns the statements.
ParseReturn ==
  /\ parser.at = "parse"
  /\ isAtEnd(parser.tokens, parser.p)
  /\ parser' = [parser EXCEPT !.at = "returned"]
  /\ UNCHANGED << lox, scanner, env_call, resolver >>

\* assignment() called on the fresh parser.
ParseAssignment ==
  /\ parser.at = "parse"
  /\ parser.p = NewParser
  /\ LET r == assignment(parser.tokens, parser.p)
     IN parser' = [parser EXCEPT !.p = r.p, !.expr = r.node, !.at = "assignment"]
  /\ UNCHANGED << lox, scanner, env_call, resolver >>

\* Lox.run after parse returned: `if self.had_error: return`, else the
\* statements go to interpret.  had_error is set by every report.
ParseHandOver ==
  /\ parser.at = "returned"
  /\ LET flag == report(had_error, parser.p.errors)
     IN /\ had_error' = flag
        /\ statements' = IF run_interprets(flag) THEN parser.statements ELSE statements
        /\ parser' = [parser EXCEPT !.at = IF run_interprets(flag) THEN "interpret"
                                          ELSE "rejected"]
  /\ UNCHANGED << mode, pc, exit_code, lines, program, ip, had_runtime_error, errlog,
                  locals, snap, scanner, env_call, resolver >>
  /\ UNCHANGED machine

NextParse ==
  \/ ParseDeclaration
  \/ ParseReturn
  \/ ParseAssignment
  \/ ParseHandOver

SpecParse == InitParse /\ [][NextParse]_vars

\* The guard of parse's loop holds.
ParseLoopGuard == parser.at = "parse" /\ ~isAtEnd(parser.tokens, parser.p)

\* Lox.run runs on: parse's loop takes the iteration its guard allows (weak
\* fairness of ParseDeclaration, which is enabled exactly under the guard),
\* parse returns when the loop is over, and run goes on after it.
FairSpecParse ==
  /\ SpecParse
  /\ []<>~ParseLoopGuard \/ []<><<ParseDeclaration>>_vars
  /\ WF_vars(ParseReturn)
  /\ WF_vars(ParseHandOver)

(***************************************************************************)
(* Environment.assign and Environment.get on every chain of at most        *)
(* MaxFrames frames.  Frame 1 is the root (enclosing None); every other    *)
(* frame was built as Environment(enclosing) on an existing frame.  The    *)
(* value of a slot of frame i is the number i, so a value read names the   *)
(* frame it was read from.                                                 *)
(***************************************************************************)
MaxFrames == 3

Names == {"a", "b"}

Enclosings(n) == {enc \in [1..n -> 0..(n - 1)] :
                    /\ enc[1] = 0
                    /\ \A i \in 2..n : enc[i] \in 1..(i - 1)}

Chains(n) ==
  {[i \in 1..n |-> [enclosing |-> enc[i], values |-> [x \in slots[i] |-> Num(i)]]] :
     enc \in Enclosings(n), slots \in [1..n -> SUBSET Names]}

InitEnv ==
  /\ mode = "file"
  /\ pc = "start"
  /\ exit_code = -1
  /\ lines = 0
  /\ program = << >>
  /\ statements = << >>
  /\ ip = 1
  /\ had_error = FALSE
  /\ had_runtime_error = FALSE
  /\ errlog = << >>
  /\ out = << >>
  /\ environment = global_environment
  /\ envs \in UNION {Chains(n) : n \in 1..MaxFrames}
  /\ heap = << >>
  /\ locals = << >>
  /\ stack = << >>
  /\ val = Nil
  /\ signal = NoSignal
  /\ snap = [out |-> << >>, errlog |-> << >>, envs |-> envs, heap |-> << >>]
  /\ scanner = NoScanner
  /\ parser = NoParser
  /\ env_call = NoCall
  /\ resolver = NoResolver

\* frame.assign(name, 0), once.
EnvAssign ==
  /\ env_call = NoCall
  /\ \E e \in DOMAIN envs, name \in Names :
       LET r == assign(envs, e, name, Num(0))
       IN /\ envs' = r.envs
          /\ signal' = r.sig
          /\ env_call' = [method |-> "assign", env |-> e, name |-> name, value |-> Num(0)]
  /\ UNCHANGED << mode, pc, exit_code, lines, program, statements, ip, had_error,
                  had_runtime_error, errlog, locals, snap, out, environment, heap,
                  stack, val, scanner, parser, resolver >>

\* frame.get(name), on the chain as built or after the assign.
EnvGet ==
  /\ env_call.method # "get"
  /\ \E e \in DOMAIN envs, name \in Names :
       LET r == get(envs, e, name)
       IN /\ val' = r.value
          /\ signal' = IF r.t = "none" THEN NoSignal ELSE r
          /\ env_call' = [method |-> "get", env |-> e, name |-> name, value |-> Nil]
  /\ UNCHANGED << mode, pc, exit_code, lines, program, statements, ip, had_error,
                  had_runtime_error, errlog, locals, snap, out, environment, envs,
                  heap, stack, scanner, parser, resolver >>

NextEnv ==
  \/ EnvAssign
  \/ EnvGet

SpecEnv == InitEnv /\ [][NextEnv]_vars

(***************************************************************************)
(* The pipeline with the resolver between the parser and the interpreter:  *)
(* Resolver(lox, interpreter).resolve(statements) fills Interpreter.locals *)
(* before interpret, and nothing is executed when the scanner, the parser  *)
(* or the resolver reported an error.  The programs are the ones above and *)
(* programs whose names live in blocks, calls, closures and methods.       *)
(***************************************************************************)
\* fun makeCounter() { var i = 0; fun count() { i = i + 1; return i; } return count; }
\* var c = makeCounter(); print c(); print c(); var d = makeCounter(); print d();
ProgCounter ==
  << FunctionStmt("makeCounter", << >>, << VarStmt("i", LiteralExpr(Num(0))),
     FunctionStmt("count", << >>, << ExpressionStmt(AssignExpr(16, "i",
     BinaryExpr(VariableExpr(18, "i"), "PLUS", LiteralExpr(Num(1))))),
     ReturnStmt(VariableExpr(23, "i")) >>), ReturnStmt(VariableExpr(27, "count")) >>),
     VarStmt("c", Call(VariableExpr(33, "makeCounter"), Paren(2), << >>)),
     PrintStmt(Call(VariableExpr(38, "c"), Paren(2), << >>)),
     PrintStmt(Call(VariableExpr(43, "c"), Paren(2), << >>)),
     VarStmt("d", Call(VariableExpr(50, "makeCounter"), Paren(2), << >>)),
     PrintStmt(Call(VariableExpr(55, "d"), Paren(2), << >>)) >>

\* { var a = 1; { var b = 2; { var a = 3; a = a + b; print a; } a = a + b; print a; } print a; }
ProgBlocks ==
  << BlockStmt(<< VarStmt("a", LiteralExpr(Num(1))), BlockStmt(<< VarStmt("b",
     LiteralExpr(Num(2))), BlockStmt(<< VarStmt("a", LiteralExpr(Num(3))),
     ExpressionStmt(AssignExpr(19, "a", BinaryExpr(VariableExpr(21, "a"), "PLUS",
     VariableExpr(23, "b")))), PrintStmt(VariableExpr(26, "a")) >>),
     ExpressionStmt(AssignExpr(29, "a", BinaryExpr(VariableExpr(31, "a"), "PLUS",
     VariableExpr(33, "b")))), PrintStmt(VariableExpr(36, "a")) >>), PrintStmt(VariableExpr(40,
     "a")) >>) >>

\* { var tag = "t"; class P { init(x) { this.x = x; } get() { fun inner() { return this.x + tag; } return inner(); } make() { return P("n"); } }
\*   var p = P("a"); print p.get(); print p.make().get(); var g = p.get; print g(); }
ProgMethods ==
  << BlockStmt(<< VarStmt("tag", LiteralExpr(Str("t"))), ClassStmt("P", << FunctionStmt("init",
     << "x" >>, << ExpressionStmt(SetExpr(ThisExpr(15), "x", VariableExpr(19, "x"))) >>),
     FunctionStmt("get", << >>, << FunctionStmt("inner", << >>,
     << ReturnStmt(BinaryExpr(GetExpr(ThisExpr(32), "x"), "PLUS", VariableExpr(36,
     "tag"))) >>), ReturnStmt(Call(VariableExpr(40, "inner"), Paren(1), << >>)) >>),
     FunctionStmt("make", << >>, << ReturnStmt(Call(VariableExpr(50, "P"), Paren(1),
     << LiteralExpr(Str("n")) >>)) >>) >>), VarStmt("p", Call(VariableExpr(60, "P"), Paren(2),
     << LiteralExpr(Str("a")) >>)), PrintStmt(Call(GetExpr(VariableExpr(66, "p"), "get"),
     Paren(2), << >>)), PrintStmt(Call(GetExpr(Call(GetExpr(VariableExpr(73, "p"), "make"),
     Paren(2), << >>), "get"), Paren(2), << >>)), VarStmt("g", GetExpr(VariableExpr(86, "p"),
     "get")), PrintStmt(Call(VariableExpr(91, "g"), Paren(2), << >>)) >>) >>

\* { fun fib(n) { if (n < 2) return n; return fib(n - 1) + fib(n - 2); } print fib(3); }
ProgFib ==
  << BlockStmt(<< FunctionStmt("fib", << "n" >>, << IfStmt(BinaryExpr(VariableExpr(10, "n"),
     "LESS", LiteralExpr(Num(2))), ReturnStmt(VariableExpr(15, "n")), None),
     ReturnStmt(BinaryExpr(Call(VariableExpr(18, "fib"), Paren(1),
     << BinaryExpr(VariableExpr(20, "n"), "MINUS", LiteralExpr(Num(1))) >>), "PLUS",
     Call(VariableExpr(25, "fib"), Paren(1), << BinaryExpr(VariableExpr(27, "n"), "MINUS",
     LiteralExpr(Num(2))) >>))) >>), PrintStmt(Call(VariableExpr(34, "fib"), Paren(1),
     << LiteralExpr(Num(3)) >>)) >>) >>

\* fun f(n) { for (var i = 0; i < n; i = i + 1) { var j = i; fun show() { print j + i; } show(); } var z = n - n; print 1 / z; } f(2);
ProgLoop ==
  << FunctionStmt("f", << "n" >>, << BlockStmt(<< VarStmt("i", LiteralExpr(Num(0))),
     WhileStmt(BinaryExpr(VariableExpr(14, "i"), "LESS", VariableExpr(16, "n")),
     BlockStmt(<< BlockStmt(<< VarStmt("j", VariableExpr(28, "i")), FunctionStmt("show", << >>,
     << PrintStmt(BinaryExpr(VariableExpr(36, "j"), "PLUS", VariableExpr(38, "i"))) >>),
     ExpressionStmt(Call(VariableExpr(41, "show"), Paren(1), << >>)) >>), AssignExpr(18, "i",
     BinaryExpr(VariableExpr(20, "i"), "PLUS", LiteralExpr(Num(1)))) >>)) >>), VarStmt("z",
     BinaryExpr(VariableExpr(49, "n"), "MINUS", VariableExpr(51, "n"))),
     PrintStmt(BinaryExpr(LiteralExpr(Num(1)), "SLASH", VariableExpr(56, "z"))) >>),
     ExpressionStmt(Call(VariableExpr(59, "f"), Paren(1), << LiteralExpr(Num(2)) >>)) >>

\* { fun f() { g(); } fun g() { print "g"; } f(); }
ProgLate ==
  << BlockStmt(<< FunctionStmt("f", << >>, << ExpressionStmt(Call(VariableExpr(7, "g"),
     Paren(1), << >>)) >>), FunctionStmt("g", << >>, << PrintStmt(LiteralExpr(Str("g"))) >>),
     ExpressionStmt(Call(VariableExpr(21, "f"), Paren(1), << >>)) >>) >>

\* Nothing, `var a = "<text>";` or `var b = "<text>";`.
ShadowChoices == << "", "a", "b" >>

Shadow(choice, text) ==
  IF choice = "" THEN << >> ELSE << VarStmt(choice, LiteralExpr(Str(text))) >>

\* var a = "global";
\* { <s1> { <s2> fun f() { <s3> print a; a = "set"; } <s4> f(); print a; } print a; }
\* print a;
ProgShadow(s1, s2, s3, s4) ==
  << VarStmt("a", LiteralExpr(Str("global"))),
     BlockStmt(
       Shadow(s1, "one")
       \o << BlockStmt(
               Shadow(s2, "two")
               \o << FunctionStmt("f", << >>,
                       Shadow(s3, "three")
                       \o << PrintStmt(VariableExpr(1, "a")),
                             ExpressionStmt(AssignExpr(2, "a", LiteralExpr(Str("set")))) >>) >>
               \o Shadow(s4, "four")
               \o << ExpressionStmt(CallExpr(VariableExpr(3, "f"), << >>)),
                     PrintStmt(VariableExpr(4, "a")) >>),
             PrintStmt(VariableExpr(5, "a")) >>),
     PrintStmt(VariableExpr(6, "a")) >>

\* The digit of i - 1 at the given place in base three picks the choice.
ShadowChoice(i, place) == ShadowChoices[(((i - 1) \div place) % 3) + 1]

ShadowPrograms ==
  [i \in 1..81 |-> ProgShadow(ShadowChoice(i, 27), ShadowChoice(i, 9), ShadowChoice(i, 3),
                              ShadowChoice(i, 1))]

ResolvedPrograms ==
  Programs \o << ProgCounter, ProgBlocks, ProgMethods, ProgFib, ProgLoop, ProgLate >>
  \o ShadowPrograms

\* Lox.run with the resolver: scan, parse, resolve, and interpret unless an
\* error was reported.
RunResolved(source) ==
  LET parsed == parse(source)
      flag == report(had_error, parsed.errors)
      r == IF flag THEN NewResolver(<< >>) ELSE resolve(NewResolver(<< >>), parsed.statements)
      resolved == report(flag, r.errors)
      es == NewInterpreter(envs)
  IN /\ program' = source
     /\ statements' = parsed.statements
     /\ errlog' = errlog \o parsed.errors \o r.errors
     /\ had_error' = resolved
     /\ envs' = es
     /\ environment' = global_environment
     /\ locals' = r.locals
     /\ ip' = 1
     /\ stack' = << >>
     /\ signal' = NoSignal
     /\ val' = Nil
     /\ snap' = [out |-> out, errlog |-> errlog, envs |-> es, heap |-> heap]
     /\ pc' = IF run_interprets(resolved) THEN "interpret" ELSE "afterrun"
     /\ UNCHANGED << mode, exit_code, had_runtime_error, out, heap, scanner, parser, env_call, resolver >>

\* run_file: read the file and run it.
RunFileResolved ==
  /\ pc = "start"
  /\ mode = "file"
  /\ \E i \in 1..Len(ResolvedPrograms) : RunResolved(ResolvedPrograms[i])
  /\ UNCHANGED lines

InitResolved ==
  /\ mode = "file"
  /\ Started
  /\ scanner = NoScanner
  /\ parser = NoParser
  /\ env_call = NoCall
  /\ resolver = NoResolver

NextResolved ==
  \/ RunFileResolved
  \/ RunFileExit
  \/ Interpret
  \/ InterpretCatch
  \/ Uncaught
  \/ VisitExpressionStmt
  \/ VisitPrintStmt
  \/ VisitVarStmt
  \/ VisitIfStmt
  \/ VisitWhileStmt
  \/ VisitFunctionStmt
  \/ VisitReturnStmt
  \/ VisitClassStmt
  \/ VisitBlockStmt
  \/ ExecuteBlock
  \/ VisitLiteralExpr
  \/ VisitVariableExpr
  \/ VisitThisExpr
  \/ VisitGroupingExpr
  \/ VisitUnaryExpr
  \/ VisitAssignExpr
  \/ VisitBinaryExpr
  \/ VisitLogicalExpr
  \/ VisitGetExpr
  \/ VisitSetExpr
  \/ VisitCallExpr
  \/ LoxFunctionCall
  \/ LoxClassCall
  \/ Propagate

SpecResolved == InitResolved /\ [][NextResolved]_vars

(***************************************************************************)
(* The Resolver on its own, walking a program that is chosen as it goes.   *)
(* `resolver` is [at, r, open, last]: r is the Resolver object, with       *)
(* r.errors the messages and r.locals the side-table entries of the last   *)
(* step only; open is the stack of the statements whose visit has begun    *)
(* and not ended (a block, a function, a class, a method), each with the   *)
(* values its visit method keeps in local variables and the depth of the   *)
(* scope stack when it began; last is the step taken.  A statement with no *)
(* statement list of its own, or a whole small block, function or class,   *)
(* is resolved in one step; at most MaxOpen visits are open at a time.     *)
(***************************************************************************)
MaxOpen == 3

ResolveExprs ==
  {LiteralExpr(Num(1)), ThisExpr(3)}
  \cup {VariableExpr(1, n) : n \in Names}
  \cup {AssignExpr(2, n, LiteralExpr(Num(1))) : n \in Names}

\* var n; var n = e; print e; return; return e; and for compound statements
\* { var a = a; print b; }   fun n(a) { return this; }
\* class n { init() { return 1; } m(b, b) { { return; } } }
ResolveStatements ==
  {VarStmt(n, None) : n \in Names}
  \cup {VarStmt(n, e) : n \in Names, e \in ResolveExprs}
  \cup {PrintStmt(e) : e \in ResolveExprs}
  \cup {ReturnStmt(None)}
  \cup {ReturnStmt(e) : e \in ResolveExprs}
  \cup {BlockStmt(<< VarStmt("a", VariableExpr(4, "a")), PrintStmt(VariableExpr(5, "b")) >>)}
  \cup {FunctionStmt(n, << "a" >>, << ReturnStmt(ThisExpr(6)) >>) : n \in Names}
  \cup {ClassStmt(n, << FunctionStmt("init", << >>, << ReturnStmt(LiteralExpr(Num(1))) >>),
                        FunctionStmt("m", << "b", "b" >>,
                                     << BlockStmt(<< ReturnStmt(None) >>) >>) >>) :
          n \in Names}

\* The parameter lists of the functions and methods entered step by step.
ResolveParams == {<< >>, << "a" >>, << "a", "b" >>, << "a", "a" >>}

\* The resolver as a step finds it: what the step before reported and
\* resolved is with Lox and the Interpreter.
Cleared(r) == [r EXCEPT !.errors = << >>, !.locals = << >>]

Opened(kind) ==
  [kind |-> kind, enclosing_function |-> resolver.r.current_function,
   enclosing_class |-> resolver.r.current_class, depth |-> Len(resolver.r.scopes)]

\* The innermost open visit.
Innermost_open == resolver.open[Len(resolver.open)]

\* Statements are resolved at top level and in the body of a block, a
\* function or a method; a class body holds methods only.
InBody ==
  /\ resolver.at = "resolve"
  /\ ~resolver.r.raised
  /\ resolver.open # << >> => Innermost_open.kind # "class"

Enter(kind, r, node) ==
  /\ Len(resolver.open) < MaxOpen
  /\ resolver' = [resolver EXCEPT !.r = r, !.open = Append(@, Opened(kind)),
                                  !.last = [op |-> "enter", node |-> node]]
  /\ UNCHANGED << lox, scanner, parser, env_call >>

Leave(kind, r) ==
  /\ resolver.at = "resolve"
  /\ ~resolver.r.raised
  /\ resolver.open # << >>
  /\ Innermost_open.kind = kind
  /\ resolver' = [resolver EXCEPT !.r = r,
                                  !.open = SubSeq(@, 1, Len(@) - 1),
                                  !.last = [op |-> "leave", node |-> Innermost_open]]
  /\ UNCHANGED << lox, scanner, parser, env_call >>

InitResolve ==
  /\ mode = "file"
  /\ Started
  /\ scanner = NoScanner
  /\ parser = NoParser
  /\ env_call = NoCall
  /\ resolver = [at |-> "resolve", r |-> NewResolver(<< >>), open |-> << >>,
                 last |-> [op |-> "none", node |-> None]]

\* stmt.accept(self) for a statement resolved in one step.
ResolveStatement ==
  /\ InBody
  /\ \E stmt \in ResolveStatements :
       resolver' = [resolver EXCEPT !.r = accept(Cleared(resolver.r), stmt),
                                    !.last = [op |-> "accept", node |-> stmt]]
  /\ UNCHANGED << lox, scanner, parser, env_call >>

\* visit_block_stmt: begin_scope, then the statements of the block.
ResolveBlockEnter ==
  /\ InBody
  /\ Enter("block", begin_scope(Cleared(resolver.r)), BlockStmt(<< >>))

\* visit_block_stmt: end_scope.
ResolveBlockLeave == Leave("block", end_scope(Cleared(resolver.r)))

\* visit_function_stmt, and resolve_function up to the body.
ResolveFunctionEnter ==
  /\ InBody
  /\ \E name \in Names, params \in ResolveParams :
       Enter("function",
             enter_function(Resolver_define(Resolver_declare(Cleared(resolver.r), name), name),
                            params, "FUNCTION"),
             FunctionStmt(name, params, << >>))

\* resolve_function after the body, for a function and for a method.
ResolveFunctionLeave ==
  \E kind \in {"function", "method"} :
    Leave(kind, leave_function(Cleared(resolver.r), Innermost_open.enclosing_function))

\* visit_class_stmt up to the methods.
ResolveClassEnter ==
  /\ InBody
  /\ \E name \in Names :
       Enter("class", enter_class(Cleared(resolver.r), name), ClassStmt(name, << >>))

\* visit_class_stmt: resolve_function for the next method, up to its body.
ResolveMethodEnter ==
  /\ resolver.at = "resolve"
  /\ ~resolver.r.raised
  /\ resolver.open # << >>
  /\ Innermost_open.kind = "class"
  /\ \E name \in {"init", "m"}, params \in ResolveParams :
       Enter("method",
             enter_function(Cleared(resolver.r), params,
                            IF name = "init" THEN "INITIALIZER" ELSE "METHOD"),
             FunctionStmt(name, params, << >>))

\* visit_class_stmt after the methods.
ResolveClassLeave ==
  Leave("class", leave_class(Cleared(resolver.r), Innermost_open.enclosing_class))

\* resolve(statements) has returned.
ResolveReturn ==
  /\ resolver.at = "resolve"
  /\ resolver.open = << >>
  /\ resolver' = [resolver EXCEPT !.at = "returned", !.r = Cleared(resolver.r),
                                  !.last = [op |-> "none", node |-> None]]
  /\ UNCHANGED << lox, scanner, parser, env_call >>

NextResolve ==
  \/ ResolveStatement
  \/ ResolveBlockEnter
  \/ ResolveBlockLeave
  \/ ResolveFunctionEnter
  \/ ResolveFunctionLeave
  \/ ResolveClassEnter
  \/ ResolveMethodEnter
  \/ ResolveClassLeave
  \/ ResolveReturn

SpecResolve == InitResolve /\ [][NextResolve]_vars

(***************************************************************************)
(* Properties                                                              *)
(***************************************************************************)
\* What the current run printed and reported so far.
printed == SubSeq(out, Len(snap.out) + 1, Len(out))
reported == SubSeq(errlog, Len(snap.errlog) + 1, Len(errlog))

\* Lox.run is over: it returned, or an exception left it.
RunEnded == pc = "afterrun" \/ (pc = "done" /\ signal.t # "none")

\* C1: run on the closure program (global a; a block declaring show, calling
\* it, declaring a new a, calling it again) prints "global" twice and raises
\* no error.
C1_LexicalClosure ==
  (RunEnded /\ program = ProgClosure) =>
     /\ printed = << "global", "global" >>
     /\ reported = << >>
     /\ signal.t = "none"

\* C2: while had_error is set by a scan or parse error of the program,
\* interpret is never invoked: no statement is started, nothing is printed,
\* and no environment or object is changed by the program.
C2_NoExecutionAfterCompileError ==
  had_error =>
     /\ pc # "interpret"
     /\ stack = << >>
     /\ ip = 1
     /\ out = snap.out
     /\ envs = snap.envs
     /\ heap = snap.heap

\* A program with a reported error and with well-formed statements has been
\* run.
C2_Witness ==
  /\ had_error
  /\ pc = "afterrun"
  /\ reported # << >>
  /\ \E i \in 1..Len(statements) : statements[i] # None

\* C3: from the moment a LoxRuntimeError is raised until interpret has handled
\* it, nothing is printed and no environment or object changes (what was done
\* before stands, nothing more is done), no further top-level statement is
\* started, the error only unwinds the handlers, and at the top interpret
\* reports it, sets had_runtime_error and returns.
C3_RuntimeErrorStopsInterpret ==
  [][ (pc = "interpret" /\ signal.t = "error") =>
        /\ out' = out
        /\ envs' = envs
        /\ heap' = heap
        /\ ip' = ip
        /\ IF stack = << >>
             THEN /\ had_runtime_error'
                  /\ errlog' = Append(errlog, signal.message)
                  /\ pc' = "afterrun"
             ELSE /\ signal' = signal
                  /\ stack' = Tail(stack)
                  /\ pc' = pc ]_vars

\* A run ended by a runtime error after it had printed, with statements
\* left that were never started.
C3_Witness ==
  /\ mode = "file"
  /\ pc = "afterrun"
  /\ had_runtime_error
  /\ reported # << >>
  /\ printed # << >>
  /\ ip <= Len(statements)

\* C4: a file run ends with status 65 if had_error, else 70 if
\* had_runtime_error, else 0, and in no other way.
C4_ExitCodes ==
  (mode = "file" /\ pc = "done") =>
     exit_code = IF had_error THEN 65 ELSE IF had_runtime_error THEN 70 ELSE 0

\* C5: at the prompt, had_error is false again whenever the next line is
\* about to be read, whatever the line before did, and the session ends only
\* on an empty line or at the end of the input.
C5_PromptSurvivesEveryLine ==
  mode = "prompt" =>
     /\ pc = "prompt" => ~had_error
     /\ pc = "done" => (program = EmptyLine \/ program = EndOfInput)

\* A return statement that is in no function body.
RECURSIVE ReturnOutsideFunction(_)
ReturnOutsideFunction(stmt) ==
  CASE stmt.k = "Return" -> TRUE
    [] stmt.k = "Block" ->
         \E i \in 1..Len(stmt.statements) : ReturnOutsideFunction(stmt.statements[i])
    [] stmt.k = "If" ->
         \/ ReturnOutsideFunction(stmt.then_branch)
         \/ (stmt.else_branch # None /\ ReturnOutsideFunction(stmt.else_branch))
    [] stmt.k = "While" -> ReturnOutsideFunction(stmt.body)
    [] OTHER -> FALSE

\* C6: running a program with a return outside every function reports
\* "Can't return from top-level code.", sets had_error and executes nothing.
C6_TopLevelReturnIsCompileError ==
  (RunEnded /\ \E i \in 1..Len(program) : ReturnOutsideFunction(program[i])) =>
     /\ had_error
     /\ \E i \in 1..Len(reported) : reported[i] = "Can't return from top-level code."
     /\ ip = 1
     /\ out = snap.out
     /\ signal.t = "none"

\* The env argument of the innermost execute_block still active, the global
\* environment when there is none.
RECURSIVE ActiveEnvironment(_)
ActiveEnvironment(s) ==
  IF s = << >> THEN global_environment
  ELSE IF Head(s).k = "block" THEN Head(s).env
  ELSE ActiveEnvironment(Tail(s))

\* C7: Interpreter.environment is always the environment of the innermost
\* execute_block that has not finished: when one finishes, normally, by a
\* Return or by an error, the environment is again the one of the
\* execute_block around it, as before the call; when none is left (interpret
\* is at its loop, has returned, or was left by an exception) it is the global
\* environment.
C7_BlockRestoresEnvironment == environment = ActiveEnvironment(stack)

\* A runtime error raised inside a block has unwound to interpret.
C7_Witness ==
  /\ pc = "interpret"
  /\ signal.t = "error"
  /\ stack = << >>
  /\ Len(envs) > Len(snap.envs)
  /\ environment = global_environment

\* A Return is in flight and the interpreter takes a step.
Unwinding == pc = "interpret" /\ signal.t = "return" /\ stack # << >>

\* While a Return unwinds: nothing is printed, defined or created, no
\* statement is started, and exactly the innermost handler is left.
ReturnOnlyUnwinds ==
  /\ out' = out
  /\ envs' = envs
  /\ heap' = heap
  /\ ip' = ip
  /\ stack' = Tail(stack)

\* C8 as stated: the Return passes every handler that is not a
\* LoxFunction.call, and the first LoxFunction.call it meets (the innermost
\* function executing) ends it and yields the returned value to its caller.
C8_ReturnYieldsItsValue ==
  [][ Unwinding =>
        /\ ReturnOnlyUnwinds
        /\ IF Head(stack).k = "call"
             THEN signal' = NoSignal /\ val' = signal.value
             ELSE signal' = signal ]_vars

\* C8, amended: as above, but the call of an initializer yields the instance
\* bound as `this` instead of the returned value.
C8_ReturnCaughtByInnermostCall ==
  [][ Unwinding =>
        /\ ReturnOnlyUnwinds
        /\ IF Head(stack).k = "call"
             THEN /\ signal' = NoSignal
                  /\ val' = IF heap[Head(stack).obj].is_initializer
                              THEN envs[heap[Head(stack).obj].closure].values["this"]
                              ELSE signal.value
             ELSE signal' = signal ]_vars

\* In the nested-return program, f's return inside if, blocks and while was
\* caught by f's call, and its caller g goes on: it has printed the value and
\* is still executing.
C8_Witness ==
  /\ program = ProgReturn
  /\ printed = << "r" >>
  /\ signal.t = "none"
  /\ \E i \in 1..Len(stack) : stack[i].k = "call"

\* C9: the Cake program (a method reading this.flavor, called through c.taste
\* and through the handle stored in t) prints "yum vanilla" for each call and
\* raises no error.
C9_ThisIsTheInstance ==
  (RunEnded /\ program = ProgCake) =>
     /\ printed = << "yum vanilla", "yum vanilla" >>
     /\ reported = << >>
     /\ signal.t = "none"

\* C10: when LoxFunction.call ends (the body completed, or a Return arrived),
\* a function that is no initializer yields the Return's value, nil without a
\* Return; an initializer yields the instance bound as `this` in its closure
\* in both cases.  The initializer program prints accordingly.
C10_CallResult ==
  /\ [][ (pc = "interpret" /\ stack # << >> /\ Head(stack).k = "call"
            /\ signal.t \in {"none", "return"}) =>
           /\ signal' = NoSignal
           /\ val' = IF heap[Head(stack).obj].is_initializer
                       THEN envs[heap[Head(stack).obj].closure].values["this"]
                     ELSE IF signal.t = "return" THEN signal.value
                     ELSE Nil
           /\ heap[Head(stack).obj].is_initializer => val'.t = "instance" ]_vars
  /\ [](RunEnded /\ program = ProgInit =>
          /\ signal.t = "none"
          /\ SubSeq(printed, 1, 6)
               = << "Foo instance", "made", "made", "Bar instance", "5", "nil" >>)

\* `print Foo().init();` has printed "Foo instance": the initializer's bare
\* return was caught twice, in Foo() and in .init().
C10_Witness ==
  /\ program = ProgInit
  /\ printed = << "Foo instance" >>

\* C11: run on `for (var i=0; i<3; i=i+1) print i;`, scanned and parsed,
\* prints 0, 1 and 2 and raises no error: the variable of the initializer can
\* be read and assigned in the condition, the increment and the body.
C11_ForLoop ==
  (RunEnded /\ program = ProgFor) =>
     /\ printed = << "0", "1", "2" >>
     /\ reported = << >>
     /\ signal.t = "none"

\* A step of a call expression that makes no call: nothing is printed, no
\* environment and no object is created or changed, and the handler is left.
NothingCalled ==
  /\ out' = out
  /\ envs' = envs
  /\ heap' = heap
  /\ environment' = environment
  /\ stack' = Tail(stack)

\* The number of parameters the callee declares: a function's own, a class's
\* initializer's (none without an initializer), none for a native function.
Declared(callee) ==
  CASE callee.t = "fn" -> Len(heap[callee.n].declaration.params)
    [] callee.t = "class" ->
         IF "init" \in DOMAIN heap[callee.n].methods
           THEN Len(heap[heap[callee.n].methods["init"]].declaration.params)
           ELSE 0
    [] OTHER -> 0

\* C12: a call expression first evaluates its callee, then its arguments from
\* left to right, one per step and changing nothing itself; only when all are
\* evaluated it looks at the callee: a value that is no function or class
\* raises "Can only call functions and classes.", a number of arguments other
\* than the callee's arity raises "Expected N arguments but got M.", both with
\* the line of the closing paren, and in both cases nothing is called.  The
\* three call programs print and report accordingly.
C12_CallChecks ==
  /\ [][ (Running /\ Head(stack).k = "eval" /\ Head(stack).node.k = "Call") =>
           LET frame == Head(stack)
               node == frame.node
               callee == Append(frame.vals, val)[1]
               n == Len(node.arguments)
           IN IF frame.ph = 0
                THEN /\ Head(stack') = Eval(node.callee)
                     /\ out' = out /\ envs' = envs /\ heap' = heap
              ELSE IF Len(frame.vals) < n
                THEN /\ Head(stack') = Eval(node.arguments[Len(frame.vals) + 1])
                     /\ out' = out /\ envs' = envs /\ heap' = heap
              ELSE IF callee.t \notin {"fn", "class", "native"}
                THEN /\ signal' = [t |-> "error", value |-> Nil, line |-> node.paren.line,
                                   message |-> "Can only call functions and classes."]
                     /\ NothingCalled
              ELSE IF n # Declared(callee)
                THEN /\ signal' = [t |-> "error", value |-> Nil, line |-> node.paren.line,
                                   message |-> "Expected " \o ToString(Declared(callee))
                                      \o " arguments but got " \o ToString(n) \o "."]
                     /\ NothingCalled
              ELSE signal' = NoSignal ]_vars
  /\ [](RunEnded /\ program = ProgCall =>
          /\ printed = << "callee", "one", "two", "body", "one", "init", "str", "one", "two" >>
          /\ reported = << "Can only call functions and classes." >>)
  /\ [](RunEnded /\ program = ProgArity =>
          /\ printed = << "callee", "one" >>
          /\ reported = << "Expected 2 arguments but got 1." >>)
  /\ [](RunEnded /\ program = ProgArityClass =>
          /\ printed = << "one", "two" >>
          /\ reported = << "Expected 1 arguments but got 2." >>)

\* The call of f with one argument, its closing paren on line 3, has raised
\* the arity error after the callee and the argument were evaluated.
C12_Witness ==
  /\ program = ProgArity
  /\ pc = "interpret"
  /\ signal.t = "error"
  /\ signal.line = 3
  /\ signal.message = "Expected 2 arguments but got 1."
  /\ printed = << "callee", "one" >>

\* nil and false are falsy, every other value is truthy.
Truthy(v) == v # Nil /\ v # Bool(FALSE)

\* C13: a logical expression evaluates its left operand first; `or` with a
\* truthy left value and `and` with a falsy one yield that value without
\* starting the right operand (nothing is printed, changed or raised);
\* otherwise the right operand is evaluated in the expression's place, so its
\* value is the result and its effects and errors happen.  The logical
\* program prints and reports accordingly.
C13_ShortCircuit ==
  /\ [][ (Running /\ Head(stack).k = "eval" /\ Head(stack).node.k = "Logical") =>
           LET frame == Head(stack)
               node == frame.node
               done == IF node.operator = "OR" THEN Truthy(val) ELSE ~Truthy(val)
           IN /\ out' = out /\ envs' = envs /\ heap' = heap /\ signal' = signal
              /\ IF frame.ph = 0
                   THEN stack' = << Eval(node.left), [frame EXCEPT !.ph = 1] >> \o Tail(stack)
                 ELSE IF done
                   THEN val' = val /\ stack' = Tail(stack)
                 ELSE stack' = << Eval(node.right) >> \o Tail(stack) ]_vars
  /\ [](RunEnded /\ program = ProgLogical =>
          /\ printed = << "ok", "nil", "b", "2", "1", "4" >>
          /\ reported = << "Operand must be a number." >>)

\* The logical program has printed its six values (a is 1 after the two
\* skipped assignments, 4 after the evaluated one) and the right operand of
\* the last `or` has raised its error.
C13_Witness ==
  /\ program = ProgLogical
  /\ printed = << "ok", "nil", "b", "2", "1", "4" >>
  /\ pc = "interpret"
  /\ signal.t = "error"

\* The instances whose fields are given.
Instances(h) == {i \in DOMAIN h : h[i].t = "instance"}

\* The Set expression on top is about to store its value.
Storing == Running /\ Head(stack).k = "eval" /\ Head(stack).node.k = "Set" /\ Head(stack).ph = 2

\* C14: a Get on an instance yields the field of that name if the instance
\* has one (whatever its class defines); else, if the class has a method of
\* that name, a new function with the method's declaration whose closure is a
\* new frame {this: the instance} around the method's closure; else it raises
\* "Undefined property 'X'.".  A Set stores the value under the name in that
\* instance, never raises, and changes no other field and no other object; no
\* other step changes any field of any instance, so a Get that finds a field
\* finds the value last stored.  The fields program prints accordingly.
C14_PropertyAccess ==
  /\ [][ (Running /\ Head(stack).k = "eval" /\ Head(stack).node.k = "Get"
            /\ Head(stack).ph = 1 /\ val.t = "instance") =>
           LET name == Head(stack).node.name
               instance == heap[val.n]
               methods == heap[instance.klass].methods
           IN IF name \in DOMAIN instance.fields
                THEN val' = instance.fields[name] /\ signal' = NoSignal /\ heap' = heap
              ELSE IF name \in DOMAIN methods
                THEN /\ signal' = NoSignal
                     /\ val'.t = "fn"
                     /\ val'.n \notin DOMAIN heap
                     /\ heap'[val'.n].declaration = heap[methods[name]].declaration
                     /\ heap'[val'.n].closure \notin DOMAIN envs
                     /\ envs'[heap'[val'.n].closure]
                          = [enclosing |-> heap[methods[name]].closure,
                             values |-> [x \in {"this"} |-> val]]
                     /\ \A i \in DOMAIN heap : heap'[i] = heap[i]
              ELSE /\ signal' = LoxRuntimeError("Undefined property '" \o name \o "'.")
                   /\ heap' = heap ]_vars
  /\ [][ Storing =>
           LET name == Head(stack).node.name
               i == Head(stack).vals[1].n
           IN /\ signal' = NoSignal
              /\ DOMAIN heap' = DOMAIN heap
              /\ \A j \in DOMAIN heap : j # i => heap'[j] = heap[j]
              /\ heap'[i].klass = heap[i].klass
              /\ DOMAIN heap'[i].fields = DOMAIN heap[i].fields \cup {name}
              /\ heap'[i].fields[name] = val
              /\ \A x \in DOMAIN heap[i].fields : x # name => heap'[i].fields[x] = heap[i].fields[x]
       ]_vars
  /\ [][ ~Storing => \A i \in Instances(heap) : heap'[i] = heap[i] ]_vars
  /\ [](RunEnded /\ program = ProgFields =>
          /\ printed = << "method", "field", "method", "2" >>
          /\ reported = << "Undefined property 'f'." >>)

\* In the fields program x.m was set and read back as the field while y.m()
\* still called the method, and x.f was read after being set twice.
C14_Witness ==
  /\ program = ProgFields
  /\ printed = << "method", "field", "method", "2" >>
  /\ \E i, j \in Instances(heap) :
        /\ DOMAIN heap[i].fields = {"m", "f"}
        /\ DOMAIN heap[j].fields = {}

\* C15: scan_tokens terminates on every source, also on one with unexpected
\* characters or an unterminated string, and the list it returns ends with an
\* EOF token and has no EOF token before it.
C15_ScanEndsWithEOF ==
  <>[](/\ scanner.returned
       /\ scanner.tokens # << >>
       /\ scanner.tokens[Len(scanner.tokens)].type = "EOF"
       /\ \A i \in 1..(Len(scanner.tokens) - 1) : scanner.tokens[i].type # "EOF")

\* scan_tokens has returned from a source with an unexpected character and an
\* unterminated string, both reported.
C15_Witness ==
  /\ scanner.returned
  /\ \E i, j \in 1..Len(scanner.errors) :
        /\ scanner.errors[i] = "Unexpected character."
        /\ scanner.errors[j] = "Unterminated string."
  /\ scanner.tokens[Len(scanner.tokens)].type = "EOF"

\* The lexemes of a token list, concatenated in order.
RECURSIVE Lexemes(_)
Lexemes(tokens) ==
  IF tokens = << >> THEN "" ELSE Head(tokens).lexeme \o Lexemes(Tail(tokens))

\* The first index from i on at which the source has a line feed, or the
\* index after the source's end.
RECURSIVE EndOfLine(_, _)
EndOfLine(source, i) ==
  IF i > Len(source) \/ source[i] = "\n" THEN i ELSE EndOfLine(source, i + 1)

\* The source from index i on without its line comments and without the
\* whitespace outside string literals; in_string tells whether index i is
\* inside a string literal.
RECURSIVE Stripped(_, _, _)
Stripped(source, i, in_string) ==
  IF i > Len(source) THEN ""
  ELSE IF in_string THEN source[i] \o Stripped(source, i + 1, source[i] # "\"")
  ELSE IF source[i] = "\"" THEN source[i] \o Stripped(source, i + 1, TRUE)
  ELSE IF source[i] \in {" ", "\t", "\r", "\n"} THEN Stripped(source, i + 1, FALSE)
  ELSE IF source[i] = "/" /\ i < Len(source) /\ source[i + 1] = "/"
    THEN Stripped(source, EndOfLine(source, i), FALSE)
  ELSE source[i] \o Stripped(source, i + 1, FALSE)

\* C16 as stated: for every source, the lexemes of the scanned tokens
\* concatenated equal the source without whitespace and line comments.
C16_RoundTripEverySource ==
  scanner.returned => Lexemes(scanner.tokens) = Stripped(scanner.source, 1, FALSE)

\* C16, amended: for every source that scans without an error (no unexpected
\* character, no unterminated string), the lexemes of the scanned tokens
\* concatenated equal the source without its line comments and without the
\* whitespace outside string literals.
C16_RoundTrip ==
  (scanner.returned /\ scanner.errors = << >>) =>
     Lexemes(scanner.tokens) = Stripped(scanner.source, 1, FALSE)

\* A source with a string literal and a line feed or comment has been scanned
\* without an error into a string token and EOF.
C16_Witness ==
  /\ scanner.returned
  /\ scanner.errors = << >>
  /\ Len(scanner.tokens) = 2
  /\ scanner.tokens[1].type = "STRING"
  /\ Len(scanner.source) > 2
  /\ Lexemes(scanner.tokens) = "\"\""

\* The token types at which synchronize stops.
SyncKeywords == {"CLASS", "FUN", "VAR", "FOR", "IF", "WHILE", "PRINT", "RETURN"}

\* With the cursor at j (j tokens consumed), synchronize's loop is over: the
\* end of input, or a `;` consumed last, or a declaration keyword next.
Synchronized(toks, j) ==
  \/ j >= Len(toks) - 1
  \/ (j >= 1 /\ toks[j].type = "SEMICOLON")
  \/ toks[j + 1].type \in SyncKeywords

\* Parse's loop is about to call a declaration that raises a ParseError.
DeclarationRaises ==
  /\ parser.at = "parse"
  /\ ~isAtEnd(parser.tokens, parser.p)
  /\ declaration_try(parser.tokens, parser.p).p.raised

\* C17 as stated: after a ParseError in a declaration the cursor is where a
\* `;` has just been consumed or a declaration keyword is next (or at the
\* end), and no token discarded, from the one the error was raised at on, is
\* a declaration keyword.
C17_NoDeclarationDiscarded ==
  [][ (DeclarationRaises /\ parser'.at = "parse") =>
        LET toks == parser.tokens
            e == declaration_try(toks, parser.p).p.current
            c == parser'.p.current
        IN /\ Synchronized(toks, c)
           /\ \A j \in e..(c - 1) : toks[j + 1].type \notin SyncKeywords ]_vars

\* C17, amended: after a ParseError in a declaration, raised at token e, the
\* parser discards token e (unless it is EOF) and then further tokens up to
\* the first cursor position at which a `;` has just been consumed or a
\* declaration keyword is next or the input ends; the declaration yields None,
\* the error stays reported, nothing is raised further, and parse's loop goes
\* on from that position.  So no declaration keyword after token e is
\* discarded.
C17_Synchronize ==
  [][ (DeclarationRaises /\ parser'.at = "parse") =>
        LET toks == parser.tokens
            d == declaration_try(toks, parser.p)
            e == d.p.current
            c == parser'.p.current
            first == IF e < Len(toks) - 1 THEN e + 1 ELSE e
        IN /\ c >= first
           /\ Synchronized(toks, c)
           /\ \A j \in first..(c - 1) : ~Synchronized(toks, j)
           /\ \A j \in first..(c - 1) : toks[j + 1].type \notin SyncKeywords
           /\ parser'.statements = Append(parser.statements, None)
           /\ parser'.p.errors = d.p.errors
           /\ ~parser'.p.raised
           /\ parser'.at = "parse" ]_vars

\* A declaration raised a ParseError, tokens after the one in error were
\* discarded, and the parser stopped in front of `print` with no `;` before.
C17_Witness ==
  /\ parser.at = "parse"
  /\ parser.statements # << >>
  /\ parser.statements[Len(parser.statements)] = None
  /\ parser.p.current >= 2
  /\ parser.p.current < Len(parser.tokens) - 1
  /\ parser.tokens[parser.p.current + 1].type = "PRINT"
  /\ parser.tokens[parser.p.current].type # "SEMICOLON"

\* The token list of the given lexemes, EOF at its end.
Lexed(lexemes) ==
  [i \in 1..(Len(lexemes) + 1) |->
     IF i > Len(lexemes) THEN Token("EOF", "", Nil, 1)
     ELSE CHOOSE t \in TokenKinds : t.lexeme = lexemes[i]]

\* C18: when `=` follows the left-hand expression and the right-hand side,
\* itself parsed by assignment (so `=` associates to the right), raises no
\* error, then a Variable on the left gives Assign(name, value), a Get gives
\* Set(object, name, value), and anything else gives the left-hand expression
\* unchanged with "Invalid assignment target." reported and no ParseError
\* raised, the cursor after the right-hand side.  A declaration that raises
\* no ParseError is followed by no synchronization: `1 = 1;` becomes the
\* statement `1;` with the error reported, the cursor after the `;`.
C18_Assignment ==
  /\ [][ (parser.at = "parse" /\ parser'.at = "assignment") =>
           LET toks == parser.tokens
               left == log_or(toks, parser.p)
               value == assignment(toks, advance(toks, left.p))
           IN (~left.p.raised /\ match(toks, left.p, {"EQUAL"}) /\ ~value.p.raised) =>
                /\ ~parser'.p.raised
                /\ parser'.p.current = value.p.current
                /\ CASE left.node.k = "Variable" ->
                          /\ parser'.expr = [k |-> "Assign", id |-> left.node.id,
                                             name |-> left.node.name, value |-> value.node]
                          /\ parser'.p.errors = value.p.errors
                     [] left.node.k = "Get" ->
                          /\ parser'.expr = [k |-> "Set", object |-> left.node.object,
                                             name |-> left.node.name, value |-> value.node]
                          /\ parser'.p.errors = value.p.errors
                     [] OTHER ->
                          /\ parser'.expr = left.node
                          /\ parser'.p.errors = Append(value.p.errors, "Invalid assignment target.")
       ]_vars
  /\ [](parser.at = "assignment" /\ parser.tokens = Lexed(<< "a", "=", "a", "=", "1" >>) =>
          /\ parser.expr = AssignExpr(1, "a", AssignExpr(3, "a", LiteralExpr(Num(1))))
          /\ parser.p.errors = << >>)
  /\ [](parser.at = "assignment" /\ parser.tokens = Lexed(<< "a", ".", "a", "=", "1" >>) =>
          /\ parser.expr = SetExpr(VariableExpr(1, "a"), "a", LiteralExpr(Num(1)))
          /\ parser.p.errors = << >>)
  /\ [](parser.at = "assignment" /\ parser.tokens = Lexed(<< "1", "=", "a", "=", "1" >>) =>
          /\ parser.expr = LiteralExpr(Num(1))
          /\ parser.p.errors = << "Invalid assignment target." >>
          /\ ~parser.p.raised
          /\ parser.p.current = 5)
  /\ [][ (parser.at = "parse" /\ parser'.at = "parse" /\ ~DeclarationRaises) =>
           LET d == declaration_try(parser.tokens, parser.p)
           IN /\ parser'.p = d.p
              /\ parser'.statements = Append(parser.statements, d.node) ]_vars
  /\ [](parser.at = "returned" /\ parser.tokens = Lexed(<< "1", "=", "1", ";", "print" >>) =>
          /\ parser.statements = << ExpressionStmt(LiteralExpr(Num(1))), None >>
          /\ parser.p.errors = << "Invalid assignment target.", "Expect expression." >>)

\* assignment() on `1 = a.a`, an invalid target: it returned the literal 1,
\* reported the error, raised nothing and stands after the right-hand side.
C18_Witness ==
  /\ parser.at = "assignment"
  /\ parser.tokens = Lexed(<< "1", "=", "a", ".", "a" >>)
  /\ parser.expr = LiteralExpr(Num(1))
  /\ parser.p.errors = << "Invalid assignment target." >>
  /\ ~parser.p.raised
  /\ parser.p.current = 5

\* The frames of the chain that starts at frame e, innermost first.
RECURSIVE Chain(_, _)
Chain(es, e) == IF e = 0 THEN << >> ELSE << e >> \o Chain(es, es[e].enclosing)

\* The innermost frame of the chain from e that contains name, 0 when none does.
Innermost(es, e, name) ==
  LET c == Chain(es, e)
      has == {i \in DOMAIN c : name \in DOMAIN es[c[i]].values}
  IN IF has = {} THEN 0 ELSE c[CHOOSE i \in has : \A j \in has : i <= j]

Undefined(name) == LoxRuntimeError("Undefined variable '" \o name \o "'.")

\* C20: Environment.assign(name, value) changes exactly the slot `name` of the
\* innermost frame of the chain that already contains `name`: every other
\* frame and slot keeps its value and no slot is created; when no frame of the
\* chain contains `name` it raises "Undefined variable 'X'." and every frame is
\* unchanged.  Environment.get returns the value of that same frame's slot, or
\* raises the same error, and changes nothing.
C20_AssignOneSlot ==
  [][env_call' # env_call =>
       LET name == env_call'.name
           f == Innermost(envs, env_call'.env, name)
       IN IF env_call'.method = "assign"
            THEN IF f = 0
                   THEN signal' = Undefined(name) /\ envs' = envs
                 ELSE /\ signal' = NoSignal
                      /\ DOMAIN envs' = DOMAIN envs
                      /\ \A i \in DOMAIN envs :
                           /\ envs'[i].enclosing = envs[i].enclosing
                           /\ DOMAIN envs'[i].values = DOMAIN envs[i].values
                           /\ \A x \in DOMAIN envs[i].values :
                                envs'[i].values[x] =
                                  IF i = f /\ x = name THEN env_call'.value
                                  ELSE envs[i].values[x]
          ELSE /\ envs' = envs
               /\ IF f = 0 THEN signal' = Undefined(name)
                  ELSE signal' = NoSignal /\ val' = envs[f].values[name]]_vars

\* frame 3 does not hold `a`, its enclosing frame 2 and the root both do:
\* the assign from frame 3 wrote frame 2's slot and a get from frame 3 reads it.
C20_Witness ==
  /\ Len(envs) = 3
  /\ env_call = [method |-> "get", env |-> 3, name |-> "a", value |-> Nil]
  /\ envs[3].enclosing = 2
  /\ DOMAIN envs[3].values = {"b"}
  /\ "a" \in DOMAIN envs[2].values \cap DOMAIN envs[1].values
  /\ envs[2].values["a"] = Num(0)
  /\ envs[1].values["a"] = Num(1)
  /\ val = Num(0)
  /\ signal = NoSignal

\* The interpreter is at a Variable, Assign or This expression to which the
\* resolver gave a depth.
AtResolved ==
  /\ AtExpr("Variable") \/ AtExpr("Assign") \/ AtExpr("This")
  /\ top.node.id \in DOMAIN locals

\* The name the expression refers to.
Referenced(expr) == IF expr.k = "This" THEN expr.keyword ELSE expr.name

ForTree(c, increment) ==
  LET body == PrintStmt(LiteralExpr(Num(1)))
      loop == WhileStmt(IF c.cond THEN LiteralExpr(Num(1)) ELSE LiteralExpr(Bool(TRUE)),
                        IF c.inc THEN BlockStmt(<< body, increment >>) ELSE body)
  IN CASE c.init = "var" -> BlockStmt(<< VarStmt("a", LiteralExpr(Num(1))), loop >>)
       [] c.init = "expression" -> BlockStmt(<< ExpressionStmt(LiteralExpr(Num(1))), loop >>)
       [] c.init = "none" -> loop

\* C21: the parser turns `for(init; cond; inc) body` into
\* Block([init, While(cond', Block([body, Expression(inc)]))]), the increment
\* wrapped in an Expression statement, cond' Literal(true) when the condition
\* is omitted, the inner Block absent when inc is omitted and the outer Block
\* absent when init is omitted.
C21_ForDesugaring ==
  \A c \in ForCases :
    (parser.at = "returned" /\ parser.tokens = ForTokens(c)) =>
      /\ parser.statements =
           << ForTree(c, ExpressionStmt(GetExpr(LiteralExpr(Num(1)), "a"))) >>
      /\ parser.p.errors = << >>

\* The resolver has reported the message in the step just taken.
Reported(r, message) == \E i \in 1..Len(r.errors) : r.errors[i] = message

\* The scopes of r that hold the name, numbered from the outermost, 1.
Holding(r, name) == {i \in 1..Len(r.scopes) : name \in DOMAIN r.scopes[i]}

\* The step resolves `var n = m;` (m the Variable expression 1) in one step.
ResolvesVarOf(n, m) ==
  /\ resolver.at = "resolve"
  /\ resolver'.at = "resolve"
  /\ resolver'.last = [op |-> "accept", node |-> VarStmt(n, VariableExpr(1, m))]

\* The step resolves `print m;` (m the Variable expression 1).
ResolvesPrintOf(m) ==
  /\ resolver.at = "resolve"
  /\ resolver'.at = "resolve"
  /\ resolver'.last = [op |-> "accept", node |-> PrintStmt(VariableExpr(1, m))]

\* The Variable expression 1 of the name is resolved to the innermost scope
\* that holds the name, and left to the globals when no scope holds it.
ResolvedInnermost(r, name) ==
  IF Holding(r, name) = {} THEN 1 \notin DOMAIN r.locals
  ELSE /\ 1 \in DOMAIN r.locals
       /\ \E i \in Holding(r, name) :
            /\ \A j \in Holding(r, name) : j <= i
            /\ r.locals[1] = Len(r.scopes) - i

\* C22: resolving a Variable expression reports "Can't read local variable
\* in its own initializer." exactly when the resolver is in a local scope and
\* the name is the one the innermost scope has declared and not yet defined,
\* that is inside the initializer of `var n = n;`: never at global scope,
\* never for a name that only an enclosing scope holds, never for a name that
\* is defined.  Reported or not, the expression is then resolved to the
\* innermost scope that holds the name (distance 0 in the reported case).
C22_OwnInitializer ==
  [][\A n, m \in Names :
       /\ ResolvesVarOf(n, m) =>
            /\ Reported(resolver'.r, "Can't read local variable in its own initializer.")
                 <=> (Len(resolver.r.scopes) > 0 /\ m = n)
            /\ ResolvedInnermost(resolver'.r, m)
            /\ (Len(resolver.r.scopes) > 0 /\ m = n) => resolver'.r.locals[1] = 0
       /\ ResolvesPrintOf(m) =>
            /\ ~Reported(resolver'.r, "Can't read local variable in its own initializer.")
            /\ ResolvedInnermost(resolver'.r, m)]_vars

\* `var a = a;` has been resolved in a block inside a scope that holds an `a`
\* of its own: reported, and resolved to the block's scope.
C22_Witness ==
  /\ resolver.at = "resolve"
  /\ resolver.last = [op |-> "accept", node |-> VarStmt("a", VariableExpr(1, "a"))]
  /\ Len(resolver.r.scopes) = 2
  /\ "a" \in DOMAIN resolver.r.scopes[1]
  /\ Reported(resolver.r, "Can't read local variable in its own initializer.")
  /\ resolver.r.locals = (1 :> 0)

\* How many times the resolver has reported the message in the step just taken.
TimesReported(r, message) ==
  Cardinality({i \in 1..Len(r.errors) : r.errors[i] = message})

\* 1 when the innermost scope of r is a local scope that holds the name.
Redeclared(r, name) ==
  IF Len(r.scopes) > 0 /\ name \in DOMAIN r.scopes[Len(r.scopes)] THEN 1 ELSE 0

\* The parameters that repeat an earlier parameter of the list.
Repeated(params) ==
  Cardinality({i \in 1..Len(params) : \E j \in 1..(i - 1) : params[j] = params[i]})

\* The step is the resolver's, with this description.
ResolverStep(op, node) ==
  /\ resolver.at = "resolve"
  /\ resolver'.at = "resolve"
  /\ resolver'.last = [op |-> op, node |-> node]

\* The kind of the visit the step has begun.
Entered(kind) ==
  /\ Len(resolver'.open) = Len(resolver.open) + 1
  /\ resolver'.open[Len(resolver'.open)].kind = kind

\* C23: a declaration reports "Already a variable with this name in this
\* scope." exactly when the innermost scope is a local scope that already
\* holds the name: once for a `var`, a function name or a class name that
\* the scope holds, once for every parameter that repeats an earlier
\* parameter of the same function or method; a name held only by enclosing
\* scopes is shadowed silently, and nothing is reported for a declaration at
\* global scope, whatever was declared there before.
C23_Redeclaration ==
  [][/\ \A n \in Names, e \in ResolveExprs \cup {None} :
          ResolverStep("accept", VarStmt(n, e)) =>
            TimesReported(resolver'.r, "Already a variable with this name in this scope.")
              = Redeclared(resolver.r, n)
     /\ \A n \in Names, params \in ResolveParams :
          (ResolverStep("enter", FunctionStmt(n, params, << >>)) /\ Entered("function")) =>
            TimesReported(resolver'.r, "Already a variable with this name in this scope.")
              = Redeclared(resolver.r, n) + Repeated(params)
     /\ \A n \in {"init", "m"}, params \in ResolveParams :
          (ResolverStep("enter", FunctionStmt(n, params, << >>)) /\ Entered("method")) =>
            TimesReported(resolver'.r, "Already a variable with this name in this scope.")
              = Repeated(params)
     /\ \A n \in Names :
          ResolverStep("enter", ClassStmt(n, << >>)) =>
            TimesReported(resolver'.r, "Already a variable with this name in this scope.")
              = Redeclared(resolver.r, n)]_vars

\* `var a;` has been resolved in a block that already held `a`, inside a
\* scope that holds `b` only: reported.
C23_Witness ==
  /\ resolver.at = "resolve"
  /\ resolver.last = [op |-> "accept", node |-> VarStmt("a", None)]
  /\ Len(resolver.r.scopes) = 2
  /\ DOMAIN resolver.r.scopes[1] = {"b"}
  /\ resolver.r.errors = << "Already a variable with this name in this scope." >>

\* The bookkeeping of the resolver: the depth of the scope stack and the two
\* context fields.
Bookkeeping(r) ==
  [depth |-> Len(r.scopes), current_function |-> r.current_function,
   current_class |-> r.current_class]

\* C24: the resolver's bookkeeping is balanced.  A statement resolved in one
\* step (a block, a function or a class with its whole body included), with
\* or without errors, leaves the depth of the scope stack, current_function
\* and current_class as they were; the end of the visit of a block, a
\* function, a method or a class leaves them as they were when the visit
\* began; when the whole program is resolved the stack is empty and both
\* fields are NONE; and no end_scope meets an empty stack.
C24_Balanced ==
  [][resolver'.at # "none" =>
       /\ ~resolver'.r.raised
       /\ (resolver.at = "resolve" /\ resolver'.at = "resolve"
             /\ resolver'.last.op = "accept") =>
            Bookkeeping(resolver'.r) = Bookkeeping(resolver.r)
       /\ (resolver.at = "resolve" /\ resolver'.at = "resolve"
             /\ resolver'.last.op = "leave") =>
            Bookkeeping(resolver'.r) =
              [depth |-> resolver'.last.node.depth,
               current_function |-> resolver'.last.node.enclosing_function,
               current_class |-> resolver'.last.node.enclosing_class]
       /\ resolver'.at = "returned" =>
            Bookkeeping(resolver'.r) =
              [depth |-> 0, current_function |-> "NONE", current_class |-> "NONE"]]_vars

\* The visit of a method has ended, in a class declared in a function: the
\* resolver is back in the class, with the scopes of the function and of
\* `this`.
C24_Witness ==
  /\ resolver.at = "resolve"
  /\ resolver.last.op = "leave"
  /\ resolver.last.node.kind = "method"
  /\ Len(resolver.open) = 2
  /\ resolver.open[1].kind = "function"
  /\ Bookkeeping(resolver.r) =
       [depth |-> 2, current_function |-> "FUNCTION", current_class |-> "CLASS"]

\* The statements a statement holds in its lists and branches.
Substatements(stmt) ==
  CASE stmt.k = "Block" -> stmt.statements
    [] stmt.k = "If" -> << stmt.then_branch >>
                        \o (IF stmt.else_branch = None THEN << >> ELSE << stmt.else_branch >>)
    [] stmt.k = "While" -> << stmt.body >>
    [] stmt.k = "Function" -> stmt.body
    [] stmt.k = "Class" -> stmt.methods
    [] OTHER -> << >>

\* The list of statements has the placeholder None as an entry, its own or
\* of a list inside.
RECURSIVE HasNone(_)
HasNone(stmts) ==
  \E i \in 1..Len(stmts) : stmts[i] = None \/ HasNone(Substatements(stmts[i]))

\* C25: every iteration of parse's loop appends one entry; the entry is None
\* exactly when a ParseError came up to that declaration, and an entry holds
\* a None further in (a block body or function body) only if the declaration
\* reported an error.  A returned tree with a None anywhere has a reported
\* error, so had_error is set when Lox.run tests it: such a tree is never
\* handed to the interpreter.
C25_NonePlaceholder ==
  /\ [][(parser.at = "parse" /\ parser'.at = "parse") =>
          LET entry == parser'.statements[Len(parser'.statements)]
          IN /\ Len(parser'.statements) = Len(parser.statements) + 1
             /\ SubSeq(parser'.statements, 1, Len(parser.statements)) = parser.statements
             /\ entry = None <=> DeclarationRaises
             /\ HasNone(<< entry >>) => Len(parser'.p.errors) > Len(parser.p.errors)]_vars
  /\ [](parser.at \in {"returned", "interpret", "rejected"} /\ HasNone(parser.statements) =>
          /\ parser.p.errors # << >>
          /\ parser.at # "interpret")
  /\ [](parser.at = "rejected" => had_error)
  /\ [](parser.at = "interpret" => statements = parser.statements /\ ~HasNone(statements))

\* `{ = ; }` or the like was parsed: the block is an entry of the tree and
\* holds a None, no entry of the top level is None, and Lox.run returned
\* without interpreting.
C25_Witness ==
  /\ parser.at = "rejected"
  /\ had_error
  /\ Len(parser.statements) = 1
  /\ parser.statements[1].k = "Block"
  /\ parser.statements[1].statements = << None >>
  /\ parser.p.current = Len(parser.tokens) - 1

\* declaration() called on the tokens at cursor c.
DeclarationAt(toks, c) == declaration(toks, [NewParser EXCEPT !.current = c])

\* C26: Parser.parse terminates.  The cursor of the parser is always within
\* 0..len(tokens)-1, so the EOF token, the last one, is never consumed, and
\* it never decreases.  parse's loop calls declaration only before the end
\* of input, and such a call, wherever it is made from (parse's loop or the
\* loop of block, which has the same guard), returns with the cursor further
\* on, at most at EOF, and lets no ParseError out.  So the loop comes to its
\* end and parse returns.
C26_ParseTerminates ==
  /\ [](parser.p.current \in 0..(Len(parser.tokens) - 1))
  /\ [][parser'.p.current >= parser.p.current]_vars
  /\ [][(parser.at = "parse" /\ parser'.at = "parse") =>
          /\ ~isAtEnd(parser.tokens, parser.p)
          /\ parser'.p.current > parser.p.current]_vars
  /\ [](parser.at = "parse" =>
          \A c \in 0..(Len(parser.tokens) - 2) :
            /\ DeclarationAt(parser.tokens, c).p.current \in (c + 1)..(Len(parser.tokens) - 1)
            /\ ~DeclarationAt(parser.tokens, c).p.raised)
  /\ [][(parser.at = "parse" /\ parser'.at = "returned") =>
          /\ parser'.p.current = Len(parser.tokens) - 1
          /\ parser.tokens[parser'.p.current + 1].type = "EOF"]_vars
  /\ <>(parser.at # "parse")
  /\ [](parser.at = "returned" ~> parser.at \in {"interpret", "rejected"})

\* parse returned after a declaration that raised its ParseError at EOF
\* (`print` with nothing after it): synchronize's advance, called at the
\* end, left the cursor on EOF.
C26_Witness ==
  /\ parser.at = "returned"
  /\ Len(parser.tokens) = 4
  /\ parser.tokens[3].type = "PRINT"
  /\ parser.statements[Len(parser.statements)] = None
  /\ parser.p.current = 3

\* The variables of the global Environment.
Globals(es) == es[global_environment].values

\* Lox.run is called: a new Interpreter is constructed.
RunBegins == pc \in {"start", "prompt"} /\ pc' \in {"interpret", "afterrun"}

=============================================================================
